---- MODULE Spec2Model ----
(***************************************************************************)
(* A model of thumbgrid's concurrent core:                                 *)
(*   - the render Scheduler (internal/term/scheduler.go) with the kitty    *)
(*     Renderer and the process-wide write lock (internal/term),           *)
(*   - the TUI threads of runGridTUI that use them (cmd/thumbgrid/main.go),*)
(*   - the thumbnail worker pool of runGridTUI (cmd/thumbgrid/main.go),    *)
(*   - the thumbnail Generation Service (internal/thumb/service.go).       *)
(* Each subsystem has its own specification over the shared variables.     *)
(***************************************************************************)
EXTENDS Integers, Sequences, FiniteSets, TLC

(***************************************************************************)
(* Bounds of the model.                                                    *)
(***************************************************************************)
\* capacity of Scheduler.queue (the buf argument of NewScheduler)
QueueCap == 2
\* number of requests (draws and barriers) the clients issue in one run
MaxReq == 3
\* NextFrame is called only while the counter is below this value
MaxGen == 2

\* capacity of thumbQ in the model (256 in runGridTUI)
ThumbQCap == 1
\* number of ensureThumb calls in one run
MaxEnsure == 4

\* number of full-frame draws of the repaint coordinator in one run
MaxFrames == 2

\* number of Generate and GenerateRect calls in one run
MaxGenCalls == 2
\* number of changes made to a source file in one run
MaxTouch == 1
\* time the capability probe waits for the terminal's reply, in ticks
ProbeTicks == 2

\* threads calling the Scheduler's public operations
Clients == {"c1", "c2"}

\* arguments of Enqueue that decide what Renderer.Draw does (X and Y only
\* appear in the escape sequence that is written)
DrawArgs ==
    { [Path |-> "t.png", W |-> 1, H |-> 1],
      [Path |-> "t.png", W |-> 0, H |-> 1] }

\* threads calling ensureThumb
Callers == {"u1", "u2"}

\* the worker goroutines (workers := 4 in runGridTUI; two in the model)
Workers == {"w1", "w2"}

\* thumbKey values: path, wpx, hpx
Keys ==
    { [path |-> "a.png", wpx |-> 160, hpx |-> 60],
      [path |-> "b.mp4", wpx |-> 160, hpx |-> 60] }

\* what thumb.GenerateRect returns to a worker: a cache path, or an error
GenResults ==
    { [tp |-> "c/1.png", err |-> FALSE],
      [tp |-> "c/2.png", err |-> FALSE],
      [tp |-> "",        err |-> TRUE] }

VARIABLES
    \* ---- Scheduler (scheduler.go) ----
    queue,        \* s.queue: the buffered channel, oldest first
    gen,          \* s.gen: the Frame Generation Counter
    quit,         \* s.quit is closed
    done,         \* the done channels (by barrier id) that are closed
    loopPc,       \* position of the consumer goroutine s.loop
    loopReq,      \* the request the consumer holds
    \* ---- write lock and output stream (part_000, kitty.go) ----
    writeMu,      \* holder of writeMu, or "free"
    writers,      \* threads that are in the middle of a write to os.Stdout
    \* ---- clients of the Scheduler ----
    cpc,          \* position of each client
    creq,         \* the request a client has built
    \* ---- history of the run ----
    nextId,       \* identity given to the next request built
    accepted,     \* ids in the order the queue accepted them
    drawLog,      \* invocations of Renderer.Draw by the consumer, in order
    droppedStale, \* ids the consumer dropped at the generation check
    rejected,     \* ids Enqueue dropped because the queue was full
    superseded,   \* ids that were in the queue when NextFrame was called
    drainBefore,  \* barrier id -> ids accepted before the barrier
    drainReturned, \* barrier ids whose Drain call has returned
    histOn,       \* the consumer's history is recorded in this run
    \* ---- thumbnail worker pool (main.go, runGridTUI) ----
    thumbReady,   \* the Ready Map: thumbKey -> cache path
    thumbInflight,\* the In-Flight Set
    thumbQ,       \* the request channel of thumbKeys
    thumbMu,      \* holder of thumbMu, or "free"
    quitThumb,    \* quitThumb is closed
    repaintCh,    \* number of signals buffered in repaintCh (capacity 1)
    wpc,          \* position of each worker
    wkey,         \* the key a worker dequeued
    wres,         \* what GenerateRect returned to the worker
    upc,          \* position of each ensureThumb caller
    ukey,         \* the key of the caller's ensureThumb call
    uret,         \* what the caller's last ensureThumb call returned
    \* ---- history of the pool ----
    ensureCalls,  \* number of ensureThumb calls made
    dedupCalls,   \* per key: calls that found the key in flight, this round
    roundInv,     \* per key: GenerateRect invocations, this round
    \* ---- the threads of runGridTUI (main.go) ----
    ipc,          \* position of the main (input) thread
    kpc,          \* position of the repaint coordinator goroutine
    kti,          \* index of the tile the coordinator's draw() is at
    kret,         \* what ensureThumb returned to drawTile
    kreq,         \* the Draw Request the coordinator's Enqueue has built
    dirty,        \* the coordinator's dirty flag
    stateMu,      \* holder of stateMu, or "free"
    showImages,   \* the showImages flag of the UI state
    quitRender,   \* quitRender is closed
    kframe,       \* history of the coordinator's frames, when recorded
    \* ---- Generation Service (service.go) and its environment ----
    srcStat,      \* source path -> [exists, mt, sz]: mtime in half seconds
    cacheDirOK,   \* os.MkdirAll(cacheDir) succeeds
    tools,        \* the executables exec.LookPath resolves
    envVideo,     \* THUMBGRID_VIDEO_TOOL
    envImage,     \* THUMBGRID_IMAGE_TOOL
    cache,        \* cache-entry path -> content, for the files that exist
    tmp,          \* per call: content of its temporary file, or "none"
    gpc,          \* position of each Generate / GenerateRect call
    gloc,         \* the locals of each call
    glast,        \* per thread: its previous call, as it returned
    genCalls,     \* number of calls made
    touches,      \* number of source changes made
    \* ---- Detect and the capability probe (part_000) ----
    dpc,          \* position of the thread in Detect / kittyProtocolAvailable
    pref,         \* the argument of Detect
    stdinTTY,     \* xt.IsTerminal(fdIn)
    stdoutTTY,    \* xt.IsTerminal(fdOut)
    stdinFlags,   \* the file-status flags of the input stream
    entryFlags,   \* the flags the input stream had when the probe was entered
    oldFlags,     \* the probe's local oldFlags
    resp,         \* bytes the terminal has yet to deliver on the input stream
    acc,          \* the probe's accumulation buffer
    clock,        \* time left to the probe's deadline
    pavail,       \* what the probe returned: "true", "false", or "" before
    pexit,        \* the exit path the probe took
    dret,         \* what Detect returned
    rname,        \* Name() of the Renderer made from Detect's result
    \* ---- ffmpegGrab and probeDuration (service.go) ----
    spc,          \* position of the thread in ffmpegGrab
    sin,          \* the call's inputs: w, h, whether ffprobe is installed,
                  \* and what ffprobe prints and how it exits
    sbox,         \* the w and h of the scale/pad filter
    sdur,         \* what probeDuration returned: [d, err]
    seek,         \* the seek offset, in units of 0.1 ms
    seekStr       \* the -ss argument, in milliseconds

schedVars == <<queue, gen, quit, done, loopPc, loopReq, cpc, creq>>
lockVars == <<writeMu, writers>>
histVars == <<nextId, accepted, drawLog, droppedStale, rejected, superseded,
              drainBefore, drainReturned, histOn>>

poolVars == <<thumbReady, thumbInflight, thumbQ, thumbMu, quitThumb, repaintCh,
              wpc, wkey, wres>>
callerVars == <<upc, ukey, uret>>
poolHist == <<ensureCalls, dedupCalls, roundInv>>

tuiVars == <<ipc, kpc, kti, kret, kreq, dirty, stateMu, showImages, quitRender,
             kframe>>

genVars == <<srcStat, cacheDirOK, tools, envVideo, envImage, cache, tmp, gpc, gloc, glast,
             genCalls, touches>>

detVars == <<dpc, pref, stdinTTY, stdoutTTY, stdinFlags, entryFlags, oldFlags,
             resp, acc, clock, pavail, pexit, dret, rname>>

seekVars == <<spc, sin, sbox, sdur, seek, seekStr>>

\* what the Scheduler, the Renderer and their clients leave alone
nonSchedVars == <<poolVars, callerVars, poolHist, tuiVars, genVars, detVars,
                  seekVars>>
\* what the worker pool and the ensureThumb callers leave alone
nonPoolVars == <<schedVars, lockVars, histVars, tuiVars, genVars, detVars,
                 seekVars>>
\* what the Generation Service leaves alone
nonGenVars == <<schedVars, lockVars, histVars, poolVars, callerVars, poolHist,
                tuiVars, detVars, seekVars>>
\* what Detect and the probe leave alone
nonDetVars == <<schedVars, lockVars, histVars, poolVars, callerVars, poolHist,
                tuiVars, genVars, seekVars>>
\* what ffmpegGrab leaves alone
nonSeekVars == <<schedVars, lockVars, histVars, poolVars, callerVars, poolHist,
                 tuiVars, genVars, detVars>>

vars == <<schedVars, lockVars, histVars, poolVars, callerVars, poolHist, tuiVars,
          genVars, detVars, seekVars>>

NoReq == [Path |-> "", W |-> 0, H |-> 0, done |-> 0, gen |-> 0, id |-> 0]

(***************************************************************************)
(* Scheduler                                                               *)
(***************************************************************************)

\* NewScheduler: queue empty, quit open, gen = 1, the consumer started.
InitSched ==
    /\ queue = <<>>
    /\ gen = 1
    /\ quit = FALSE
    /\ done = {}
    /\ loopPc = "select"
    /\ loopReq = NoReq
    /\ cpc = [c \in Clients |-> "idle"]
    /\ creq = [c \in Clients |-> NoReq]

InitLock ==
    /\ writeMu = "free"
    /\ writers = {}

InitHist ==
    /\ nextId = 1
    /\ accepted = <<>>
    /\ drawLog = <<>>
    /\ droppedStale = {}
    /\ rejected = {}
    /\ superseded = {}
    /\ drainBefore = [b \in {} |-> {}]
    /\ drainReturned = {}

SeqIds(s) == {s[i].id : i \in 1..Len(s)}
DrawIds(s) == {s[i].id : i \in {j \in 1..Len(s) : s[j].done = 0}}
DrawnIds == {drawLog[i].id : i \in 1..Len(drawLog)}

\* req := <-s.queue
ChanRecvLast(q) == [val |-> q[Len(q)], rest |-> SubSeq(q, 1, Len(q) - 1)]
ChanRecv(q) == [val |-> Head(q), rest |-> Tail(q)]

\* select { case s.queue <- req: default: }
TrySendAlways(q, req) == Append(q, req)
TrySend(q, req) == IF Len(q) < QueueCap THEN Append(q, req) ELSE q

\* req.done != nil
IsBarrier(req) == req.done # 0

\* req.gen != s.gen.Load()
IsStaleNever(req, g) == FALSE
IsStale(req, g) == req.gen # g

\* kittyRenderer.Draw returns at once for an empty placement
DrawIsNoop(req) == req.W <= 0 \/ req.H <= 0 \/ req.Path = ""

\* <-done
DoneClosedAlways(b) == TRUE
DoneClosed(b) == b \in done

\* loop: case req := <-s.queue, with the barrier branch
LoopRecv ==
    /\ loopPc = "select"
    /\ queue # <<>>
    /\ LET r == ChanRecv(queue) IN
        /\ queue' = r.rest
        /\ IF IsBarrier(r.val)
           THEN /\ done' = done \cup {r.val.done}
                /\ loopPc' = "select"
                /\ loopReq' = NoReq
           ELSE /\ done' = done
                /\ loopPc' = "check"
                /\ loopReq' = r.val
    /\ UNCHANGED <<gen, quit, cpc, creq, lockVars, histVars>>
    /\ UNCHANGED nonSchedVars

\* loop: if req.gen != s.gen.Load() { continue }
LoopCheck ==
    /\ loopPc = "check"
    /\ IF IsStale(loopReq, gen)
       THEN /\ loopPc' = "select"
            /\ loopReq' = NoReq
            /\ droppedStale' = IF histOn THEN droppedStale \cup {loopReq.id}
                                       ELSE droppedStale
       ELSE /\ loopPc' = "draw"
            /\ loopReq' = loopReq
            /\ droppedStale' = droppedStale
    /\ UNCHANGED <<queue, gen, quit, done, cpc, creq, lockVars, nextId,
                   accepted, drawLog, rejected, superseded, drainBefore,
                   drainReturned, histOn>>
    /\ UNCHANGED nonSchedVars

\* loop: s.r.Draw(...) is invoked; kittyRenderer.Draw up to Lock()
LoopDraw ==
    /\ loopPc = "draw"
    /\ drawLog' = IF histOn
                  THEN Append(drawLog, [id |-> loopReq.id, tag |-> loopReq.gen,
                                        genAt |-> gen])
                  ELSE drawLog
    /\ IF DrawIsNoop(loopReq)
       THEN /\ loopPc' = "select"
            /\ loopReq' = NoReq
       ELSE /\ loopPc' = "lock"
            /\ loopReq' = loopReq
    /\ UNCHANGED <<queue, gen, quit, done, cpc, creq, lockVars, nextId,
                   accepted, droppedStale, rejected, superseded, drainBefore,
                   drainReturned, histOn>>
    /\ UNCHANGED nonSchedVars

\* kittyRenderer.Draw: Lock()
DrawLock ==
    /\ loopPc = "lock"
    /\ writeMu = "free"
    /\ writeMu' = "loop"
    /\ loopPc' = "write"
    /\ UNCHANGED <<queue, gen, quit, done, loopReq, cpc, creq, writers, histVars>>
    /\ UNCHANGED nonSchedVars

\* kittyRenderer.Draw: fmt.Fprint(os.Stdout, cmd) starts
DrawWrite ==
    /\ loopPc = "write"
    /\ writers' = writers \cup {"loop"}
    /\ loopPc' = "wrote"
    /\ UNCHANGED <<queue, gen, quit, done, loopReq, cpc, creq, writeMu, histVars>>
    /\ UNCHANGED nonSchedVars

\* kittyRenderer.Draw: the write ends, deferred Unlock(), Draw returns
DrawUnlock ==
    /\ loopPc = "wrote"
    /\ writers' = writers \ {"loop"}
    /\ writeMu' = "free"
    /\ loopPc' = "select"
    /\ loopReq' = NoReq
    /\ UNCHANGED <<queue, gen, quit, done, cpc, creq, histVars>>
    /\ UNCHANGED nonSchedVars

\* loop: case <-s.quit: return
LoopQuit ==
    /\ loopPc = "select"
    /\ quit
    /\ loopPc' = "exited"
    /\ UNCHANGED <<queue, gen, quit, done, loopReq, cpc, creq, lockVars, histVars>>
    /\ UNCHANGED nonSchedVars

\* Enqueue: g := s.gen.Load(), and the request is built
EnqueueLoad(c) ==
    /\ cpc[c] = "idle"
    /\ nextId <= MaxReq
    /\ \E a \in DrawArgs :
         creq' = [creq EXCEPT ![c] =
                    [Path |-> a.Path, W |-> a.W, H |-> a.H, done |-> 0,
                     gen |-> gen, id |-> nextId]]
    /\ cpc' = [cpc EXCEPT ![c] = "enq"]
    /\ nextId' = nextId + 1
    /\ UNCHANGED <<queue, gen, quit, done, loopPc, loopReq, lockVars, accepted,
                   drawLog, droppedStale, rejected, superseded, drainBefore,
                   drainReturned, histOn>>
    /\ UNCHANGED nonSchedVars

\* Enqueue: the non-blocking send
EnqueueSend(c) ==
    /\ cpc[c] = "enq"
    /\ queue' = TrySend(queue, creq[c])
    /\ IF Len(queue') > Len(queue)
       THEN /\ accepted' = Append(accepted, creq[c].id)
            /\ rejected' = rejected
       ELSE /\ accepted' = accepted
            /\ rejected' = rejected \cup {creq[c].id}
    /\ cpc' = [cpc EXCEPT ![c] = "idle"]
    /\ creq' = [creq EXCEPT ![c] = NoReq]
    /\ UNCHANGED <<gen, quit, done, loopPc, loopReq, lockVars, nextId, drawLog,
                   droppedStale, superseded, drainBefore, drainReturned, histOn>>
    /\ UNCHANGED nonSchedVars

\* Drain: done := make(chan struct{}); the barrier is built with s.gen.Load()
DrainLoad(c) ==
    /\ cpc[c] = "idle"
    /\ nextId <= MaxReq
    /\ creq' = [creq EXCEPT ![c] =
                  [Path |-> "", W |-> 0, H |-> 0, done |-> nextId,
                   gen |-> gen, id |-> nextId]]
    /\ cpc' = [cpc EXCEPT ![c] = "drain"]
    /\ nextId' = nextId + 1
    /\ UNCHANGED <<queue, gen, quit, done, loopPc, loopReq, lockVars, accepted,
                   drawLog, droppedStale, rejected, superseded, drainBefore,
                   drainReturned, histOn>>
    /\ UNCHANGED nonSchedVars

\* Drain: s.queue <- barrier, which waits for a free slot
DrainSend(c) ==
    /\ cpc[c] = "drain"
    /\ Len(queue) < QueueCap
    /\ queue' = Append(queue, creq[c])
    /\ drainBefore' = [b \in DOMAIN drainBefore \cup {creq[c].id} |->
                         IF b = creq[c].id
                         THEN {accepted[i] : i \in 1..Len(accepted)}
                                 \ DOMAIN drainBefore
                         ELSE drainBefore[b]]
    /\ accepted' = Append(accepted, creq[c].id)
    /\ cpc' = [cpc EXCEPT ![c] = "wait"]
    /\ UNCHANGED <<gen, quit, done, loopPc, loopReq, creq, lockVars, nextId,
                   drawLog, droppedStale, rejected, superseded, drainReturned,
                   histOn>>
    /\ UNCHANGED nonSchedVars

\* Drain: <-done, and Drain returns
DrainWait(c) ==
    /\ cpc[c] = "wait"
    /\ DoneClosed(creq[c].done)
    /\ drainReturned' = drainReturned \cup {creq[c].id}
    /\ cpc' = [cpc EXCEPT ![c] = "idle"]
    /\ creq' = [creq EXCEPT ![c] = NoReq]
    /\ UNCHANGED <<queue, gen, quit, done, loopPc, loopReq, lockVars, nextId,
                   accepted, drawLog, droppedStale, rejected, superseded,
                   drainBefore, histOn>>
    /\ UNCHANGED nonSchedVars

\* NextFrame: s.gen.Add(1)
NextFrame(c) ==
    /\ cpc[c] = "idle"
    /\ gen < MaxGen
    /\ gen' = gen + 1
    /\ superseded' = superseded \cup DrawIds(queue)
    /\ UNCHANGED <<queue, quit, done, loopPc, loopReq, cpc, creq, lockVars,
                   nextId, accepted, drawLog, droppedStale, rejected,
                   drainBefore, drainReturned, histOn>>
    /\ UNCHANGED nonSchedVars

\* Close: close(s.quit); s.r.Close() does nothing for both renderers
Close(c) ==
    /\ cpc[c] = "idle"
    /\ ~quit
    /\ quit' = TRUE
    /\ UNCHANGED <<queue, gen, done, loopPc, loopReq, cpc, creq, lockVars,
                   histVars>>
    /\ UNCHANGED nonSchedVars

(***************************************************************************)
(* Thumbnail worker pool (runGridTUI)                                      *)
(***************************************************************************)

\* thumbReady, thumbInflight, thumbQ as made; the workers started
InitPool ==
    /\ thumbReady = [k \in {} |-> ""]
    /\ thumbInflight = {}
    /\ thumbQ = <<>>
    /\ thumbMu = "free"
    /\ quitThumb = FALSE
    /\ repaintCh = 0
    /\ wpc = [w \in Workers |-> "select"]
    /\ wkey = [w \in Workers |-> CHOOSE k \in Keys : TRUE]
    /\ wres = [w \in Workers |-> [tp |-> "", err |-> TRUE]]
    /\ ensureCalls = 0
    /\ dedupCalls = [k \in Keys |-> 0]
    /\ roundInv = [k \in Keys |-> 0]

InitCallers ==
    /\ upc = [u \in Callers |-> "idle"]
    /\ ukey = [u \in Callers |-> CHOOSE k \in Keys : TRUE]
    /\ uret = [u \in Callers |-> [tp |-> "", ok |-> FALSE]]

\* m[k] = v on a Go map
MapPut(m, k, v) == [x \in DOMAIN m \cup {k} |-> IF x = k THEN v ELSE m[x]]

\* select { case thumbQ <- k: default: }
TrySendKey(q, k) == IF Len(q) < ThumbQCap THEN Append(q, k) ELSE q

\* if _, inflight := thumbInflight[k]; !inflight
NotInflightAlways(k) == TRUE
NotInflight(k) == k \notin thumbInflight

\* ensureThumb between thumbMu.Lock() and thumbMu.Unlock(): the values of
\* thumbInflight, thumbQ and the result for key k
EnsureBodyNoReady(k) ==
    IF NotInflight(k)
    THEN [inflight |-> thumbInflight \cup {k}, q |-> TrySendKey(thumbQ, k),
          ret |-> [tp |-> "", ok |-> FALSE]]
    ELSE [inflight |-> thumbInflight, q |-> thumbQ,
          ret |-> [tp |-> "", ok |-> FALSE]]
EnsureBody(k) ==
    IF k \in DOMAIN thumbReady
    THEN [inflight |-> thumbInflight, q |-> thumbQ,
          ret |-> [tp |-> thumbReady[k], ok |-> TRUE]]
    ELSE IF NotInflight(k)
    THEN [inflight |-> thumbInflight \cup {k}, q |-> TrySendKey(thumbQ, k),
          ret |-> [tp |-> "", ok |-> FALSE]]
    ELSE [inflight |-> thumbInflight, q |-> thumbQ,
          ret |-> [tp |-> "", ok |-> FALSE]]

\* ensureThumb: thumbMu.Lock()
EnsureLock(u) ==
    /\ upc[u] = "idle"
    /\ ensureCalls < MaxEnsure
    /\ thumbMu = "free"
    /\ thumbMu' = u
    /\ \E k \in Keys : ukey' = [ukey EXCEPT ![u] = k]
    /\ upc' = [upc EXCEPT ![u] = "ensure"]
    /\ ensureCalls' = ensureCalls + 1
    /\ UNCHANGED <<thumbReady, thumbInflight, thumbQ, quitThumb, repaintCh, wpc,
                   wkey, wres, uret, dedupCalls, roundInv>>
    /\ UNCHANGED nonPoolVars

\* ensureThumb: the Ready Map and In-Flight Set checks, the dispatch,
\* thumbMu.Unlock() and the return
EnsureReturn(u) ==
    /\ upc[u] = "ensure"
    /\ LET k == ukey[u]
           r == EnsureBody(k) IN
        /\ thumbInflight' = r.inflight
        /\ thumbQ' = r.q
        /\ uret' = [uret EXCEPT ![u] = r.ret]
        /\ dedupCalls' = [dedupCalls EXCEPT ![k] =
                            IF k \notin DOMAIN thumbReady /\ k \in thumbInflight
                            THEN @ + 1 ELSE @]
    /\ thumbMu' = "free"
    /\ upc' = [upc EXCEPT ![u] = "idle"]
    /\ UNCHANGED <<thumbReady, quitThumb, repaintCh, wpc, wkey, wres, ukey,
                   ensureCalls, roundInv>>
    /\ UNCHANGED nonPoolVars

\* worker: case k := <-thumbQ, and thumb.GenerateRect is called
WorkerRecv(w) ==
    /\ wpc[w] = "select"
    /\ thumbQ # <<>>
    /\ wkey' = [wkey EXCEPT ![w] = Head(thumbQ)]
    /\ thumbQ' = Tail(thumbQ)
    /\ wpc' = [wpc EXCEPT ![w] = "gen"]
    /\ roundInv' = [roundInv EXCEPT ![Head(thumbQ)] = @ + 1]
    /\ UNCHANGED <<thumbReady, thumbInflight, thumbMu, quitThumb, repaintCh,
                   wres, callerVars, ensureCalls, dedupCalls>>
    /\ UNCHANGED nonPoolVars

\* worker: thumb.GenerateRect returns
WorkerGen(w) ==
    /\ wpc[w] = "gen"
    /\ \E r \in GenResults : wres' = [wres EXCEPT ![w] = r]
    /\ wpc' = [wpc EXCEPT ![w] = "lock"]
    /\ UNCHANGED <<thumbReady, thumbInflight, thumbQ, thumbMu, quitThumb,
                   repaintCh, wkey, callerVars, poolHist>>
    /\ UNCHANGED nonPoolVars

\* worker: thumbMu.Lock()
WorkerLock(w) ==
    /\ wpc[w] = "lock"
    /\ thumbMu = "free"
    /\ thumbMu' = w
    /\ wpc' = [wpc EXCEPT ![w] = "update"]
    /\ UNCHANGED <<thumbReady, thumbInflight, thumbQ, quitThumb, repaintCh,
                   wkey, wres, callerVars, poolHist>>
    /\ UNCHANGED nonPoolVars

\* delete(thumbInflight, k) by the worker that holds k
DeleteInflightOnSuccess(w) ==
    IF ~wres[w].err THEN thumbInflight \ {wkey[w]} ELSE thumbInflight
DeleteInflight(w) == thumbInflight \ {wkey[w]}

\* worker: thumbReady[k] = tp on success, delete(thumbInflight, k),
\* thumbMu.Unlock()
WorkerUpdate(w) ==
    /\ wpc[w] = "update"
    /\ thumbReady' = IF ~wres[w].err
                     THEN MapPut(thumbReady, wkey[w], wres[w].tp)
                     ELSE thumbReady
    /\ thumbInflight' = DeleteInflight(w)
    /\ thumbMu' = "free"
    /\ wpc' = [wpc EXCEPT ![w] = "signal"]
    /\ dedupCalls' = [dedupCalls EXCEPT ![wkey[w]] = 0]
    /\ roundInv' = [roundInv EXCEPT ![wkey[w]] = 0]
    /\ UNCHANGED <<thumbQ, quitThumb, repaintCh, wkey, wres, callerVars,
                   ensureCalls>>
    /\ UNCHANGED nonPoolVars

\* select { case repaintCh <- struct{}{}: default: } on the channel of
\* capacity 1, given the number of signals pending in it
TrySignalDrop(pending) == pending
TrySignal(pending) == IF pending < 1 THEN pending + 1 ELSE pending

\* worker: select { case repaintCh <- struct{}{}: default: }
WorkerSignal(w) ==
    /\ wpc[w] = "signal"
    /\ repaintCh' = TrySignal(repaintCh)
    /\ wpc' = [wpc EXCEPT ![w] = "select"]
    /\ UNCHANGED <<thumbReady, thumbInflight, thumbQ, thumbMu, quitThumb, wkey,
                   wres, callerVars, poolHist>>
    /\ UNCHANGED nonPoolVars

\* worker: case <-quitThumb: return
WorkerQuit(w) ==
    /\ wpc[w] = "select"
    /\ quitThumb
    /\ wpc' = [wpc EXCEPT ![w] = "exited"]
    /\ UNCHANGED <<thumbReady, thumbInflight, thumbQ, thumbMu, quitThumb,
                   repaintCh, wkey, wres, callerVars, poolHist>>
    /\ UNCHANGED nonPoolVars

\* runGridTUI returns: defer close(quitThumb)
CloseThumb ==
    /\ ~quitThumb
    /\ \A u \in Callers : upc[u] = "idle"
    /\ quitThumb' = TRUE
    /\ UNCHANGED <<thumbReady, thumbInflight, thumbQ, thumbMu, repaintCh, wpc,
                   wkey, wres, callerVars, poolHist>>
    /\ UNCHANGED nonPoolVars

(***************************************************************************)
(* The threads of runGridTUI: the main (input) thread and the repaint      *)
(* coordinator.  The Scheduler's consumer and the workers are the actions  *)
(* above.                                                                  *)
(***************************************************************************)

\* the workers that run in SpecTUI
TUIWorkers == {"w1"}

\* the tiles of the grid, by the thumbKey drawTile asks for
TileKeys ==
    << [path |-> "a.png", wpx |-> 160, hpx |-> 60],
       [path |-> "b.mp4", wpx |-> 160, hpx |-> 60] >>

\* runGridTUI up to the first requestRepaint() (main.go:754), which the
\* main thread is about to call; the coordinator is at its select
InitTUI ==
    /\ ipc = "signal"
    /\ kpc = "select"
    /\ kti = 1
    /\ kret = [tp |-> "", ok |-> FALSE]
    /\ kreq = NoReq
    /\ dirty = TRUE
    /\ stateMu = "free"
    /\ showImages = TRUE
    /\ quitRender = FALSE

\* what the TUI threads leave alone in every step, but for the history of
\* the frames
tuiFrameK == <<cpc, creq, callerVars, ensureCalls, done, loopPc, loopReq,
               droppedStale, rejected, drainBefore, drainReturned, drawLog,
               histOn, wpc, wkey, wres, thumbReady, roundInv, genVars, detVars,
               seekVars>>
tuiFrame == <<tuiFrameK, kframe>>

\* the history of the frames: whether it is recorded; the NextFrame() calls
\* since the last full-frame draw began and their number when it began; the
\* draws begun in the current tick; the repaint signals received since the
\* last draw began (counted up to 2) and their number when it began; the
\* tags of the Draw Requests the current frame has built; the largest tag
\* of the earlier frames
FrameOff ==
    [on |-> FALSE, nf |-> 0, nfAt |-> 0, draws |-> 0, sigs |-> 0, sigsAt |-> 0,
     tags |-> {}, prev |-> 0]
FrameOn == [FrameOff EXCEPT !.on = TRUE]

\* the largest number of a set of naturals, 0 for the empty set
MaxOf(S) == IF S = {} THEN 0 ELSE CHOOSE x \in S : \A y \in S : y <= x

\* s.gen.Add(1)
GenAddNone(g) == g
GenAdd(g) == g + 1

\* br.ReadByte() returns ^L, or a CSI sequence whose final byte is none of
\* the known ones: requestRepaint() with no mutex taken
InputRedraw ==
    /\ ipc = "read"
    /\ ipc' = "signal"
    /\ UNCHANGED <<kpc, kti, kret, kreq, dirty, stateMu, showImages, quitRender>>
    /\ UNCHANGED <<queue, gen, quit, lockVars, nextId, accepted, superseded>>
    /\ UNCHANGED <<thumbInflight, thumbQ, thumbMu, quitThumb, repaintCh, dedupCalls>>
    /\ UNCHANGED tuiFrame

\* br.ReadByte() returns a mouse report (ESC [ < btn;x;y M): the main thread
\* goes on to the stateMu.Lock() around computeLayout()
InputMouse ==
    /\ ipc = "read"
    /\ ipc' = "m_lock"
    /\ UNCHANGED <<kpc, kti, kret, kreq, dirty, stateMu, showImages, quitRender>>
    /\ UNCHANGED <<queue, gen, quit, lockVars, nextId, accepted, superseded>>
    /\ UNCHANGED <<thumbInflight, thumbQ, thumbMu, quitThumb, repaintCh, dedupCalls>>
    /\ UNCHANGED tuiFrame

\* br.ReadByte() returns an error: return nil, 65, err; the deferred
\* functions run next, nothing is written before them
InputReadError ==
    /\ ipc = "read"
    /\ ipc' = "d_quitRender"
    /\ UNCHANGED <<kpc, kti, kret, kreq, dirty, stateMu, showImages, quitRender>>
    /\ UNCHANGED <<queue, gen, quit, lockVars, nextId, accepted, superseded>>
    /\ UNCHANGED <<thumbInflight, thumbQ, thumbMu, quitThumb, repaintCh, dedupCalls>>
    /\ UNCHANGED tuiFrame

\* br.ReadByte() returns a key that changes the UI state (or SIGWINCH
\* arrived): the main thread goes on to stateMu.Lock()
InputKey ==
    /\ ipc = "read"
    /\ ipc' = "lock"
    /\ UNCHANGED <<kpc, kti, kret, kreq, dirty, stateMu, showImages, quitRender>>
    /\ UNCHANGED <<queue, gen, quit, lockVars, nextId, accepted, superseded>>
    /\ UNCHANGED <<thumbInflight, thumbQ, thumbMu, quitThumb, repaintCh, dedupCalls>>
    /\ UNCHANGED tuiFrame

\* stateMu.Lock() by the main thread, which waits while the coordinator
\* holds the mutex
InputLock ==
    /\ ipc \in {"lock", "m_lock"}
    /\ stateMu = "free"
    /\ stateMu' = "in"
    /\ ipc' = IF ipc = "lock" THEN "mutate" ELSE "m_layout"
    /\ UNCHANGED <<kpc, kti, kret, kreq, dirty, showImages, quitRender>>
    /\ UNCHANGED <<queue, gen, quit, lockVars, nextId, accepted, superseded>>
    /\ UNCHANGED <<thumbInflight, thumbQ, thumbMu, quitThumb, repaintCh, dedupCalls>>
    /\ UNCHANGED tuiFrame

\* stateMu.Unlock() by the main thread: the value of the mutex afterwards
ReleaseSkip(mu) == mu
Release(mu) == "free"

\* the state change ('p' toggles showImages, other keys move the cursor),
\* stateMu.Unlock(); requestRepaint() is next, but for PageUp and PageDown
\* (ESC [ 5, ESC [ 6), which read the sequence's last byte first
InputMutate ==
    /\ ipc = "mutate"
    /\ \E toggle \in BOOLEAN :
         /\ showImages' = IF toggle THEN ~showImages ELSE showImages
         /\ ipc' \in IF toggle THEN {"signal"} ELSE {"signal", "pgread"}
    /\ stateMu' = Release(stateMu)
    /\ UNCHANGED <<kpc, kti, kret, kreq, dirty, quitRender>>
    /\ UNCHANGED <<queue, gen, quit, lockVars, nextId, accepted, superseded>>
    /\ UNCHANGED <<thumbInflight, thumbQ, thumbMu, quitThumb, repaintCh, dedupCalls>>
    /\ UNCHANGED tuiFrame

\* mouse report: computeLayout(), stateMu.Unlock(); a click outside every
\* tile continues with the next read, a wheel event or a click on a tile
\* goes on to a second stateMu.Lock() for its state change
InputMouseLayout ==
    /\ ipc = "m_layout"
    /\ stateMu' = Release(stateMu)
    /\ ipc' \in {"read", "lock"}
    /\ UNCHANGED <<kpc, kti, kret, kreq, dirty, showImages, quitRender>>
    /\ UNCHANGED <<queue, gen, quit, lockVars, nextId, accepted, superseded>>
    /\ UNCHANGED <<thumbInflight, thumbQ, thumbMu, quitThumb, repaintCh, dedupCalls>>
    /\ UNCHANGED tuiFrame

\* PageUp, PageDown: _, _ = br.ReadByte() returns (the byte or an error)
InputPageRead ==
    /\ ipc = "pgread"
    /\ ipc' = "signal"
    /\ UNCHANGED <<kpc, kti, kret, kreq, dirty, stateMu, showImages, quitRender>>
    /\ UNCHANGED <<queue, gen, quit, lockVars, nextId, accepted, superseded>>
    /\ UNCHANGED <<thumbInflight, thumbQ, thumbMu, quitThumb, repaintCh, dedupCalls>>
    /\ UNCHANGED tuiFrame

\* requestRepaint(): select { case repaintCh <- struct{}{}: default: }
InputSignal ==
    /\ ipc = "signal"
    /\ repaintCh' = TrySignal(repaintCh)
    /\ ipc' = "read"
    /\ UNCHANGED <<kpc, kti, kret, kreq, dirty, stateMu, showImages, quitRender>>
    /\ UNCHANGED <<queue, gen, quit, lockVars, nextId, accepted, superseded>>
    /\ UNCHANGED <<thumbInflight, thumbQ, thumbMu, quitThumb, dedupCalls>>
    /\ UNCHANGED tuiFrame

\* the positions at which the main thread starts a write to os.Stdout, with
\* the position during the write and the one after it:
\*   'q', Esc, ^C or Enter: renderer.ClearAll(), then Fprint("\x1b[2J\x1b[H"),
\*   then, after sched.Close(), the deferred renderer.ClearAll() and the
\*   deferred Fprint of the mouse-off sequence
InputWrites ==
    { [at |-> "read",    during |-> "x_clear", after |-> "x_cls"],
      [at |-> "x_cls",   during |-> "x_cls_w", after |-> "d_quitRender"],
      [at |-> "d_clear", during |-> "d_clear_w", after |-> "d_mouse"],
      [at |-> "d_mouse", during |-> "d_mouse_w", after |-> "done"] }

\* the lock a write of the main thread is made under: kittyRenderer.ClearAll
\* and the Fprint calls of the exit paths take none
InputWriteLocked == FALSE

\* the main thread starts a write
InputWriteBegin ==
    /\ \E wr \in InputWrites :
         /\ ipc = wr.at
         /\ ipc' = wr.during
    /\ IF InputWriteLocked
       THEN writeMu = "free" /\ writeMu' = "in"
       ELSE writeMu' = writeMu
    /\ writers' = writers \cup {"in"}
    /\ UNCHANGED <<kpc, kti, kret, kreq, dirty, stateMu, showImages, quitRender>>
    /\ UNCHANGED <<queue, gen, quit, nextId, accepted, superseded>>
    /\ UNCHANGED <<thumbInflight, thumbQ, thumbMu, quitThumb, repaintCh, dedupCalls>>
    /\ UNCHANGED tuiFrame

\* the write of the main thread ends
InputWriteEnd ==
    /\ \E wr \in InputWrites :
         /\ ipc = wr.during
         /\ ipc' = wr.after
    /\ writers' = writers \ {"in"}
    /\ writeMu' = IF writeMu = "in" THEN "free" ELSE writeMu
    /\ UNCHANGED <<kpc, kti, kret, kreq, dirty, stateMu, showImages, quitRender>>
    /\ UNCHANGED <<queue, gen, quit, nextId, accepted, superseded>>
    /\ UNCHANGED <<thumbInflight, thumbQ, thumbMu, quitThumb, repaintCh, dedupCalls>>
    /\ UNCHANGED tuiFrame

\* deferred: close(quitRender)
DeferCloseRender ==
    /\ ipc = "d_quitRender"
    /\ quitRender' = TRUE
    /\ ipc' = "d_wait"
    /\ UNCHANGED <<kpc, kti, kret, kreq, dirty, stateMu, showImages>>
    /\ UNCHANGED <<queue, gen, quit, lockVars, nextId, accepted, superseded>>
    /\ UNCHANGED <<thumbInflight, thumbQ, thumbMu, quitThumb, repaintCh, dedupCalls>>
    /\ UNCHANGED tuiFrame

\* deferred: renderWG.Wait()
DeferWait ==
    /\ ipc = "d_wait"
    /\ kpc = "exited"
    /\ ipc' = "d_quitThumb"
    /\ UNCHANGED <<kpc, kti, kret, kreq, dirty, stateMu, showImages, quitRender>>
    /\ UNCHANGED <<queue, gen, quit, lockVars, nextId, accepted, superseded>>
    /\ UNCHANGED <<thumbInflight, thumbQ, thumbMu, quitThumb, repaintCh, dedupCalls>>
    /\ UNCHANGED tuiFrame

\* deferred: close(quitThumb)
DeferCloseThumb ==
    /\ ipc = "d_quitThumb"
    /\ quitThumb' = TRUE
    /\ ipc' = "d_schedClose"
    /\ UNCHANGED <<kpc, kti, kret, kreq, dirty, stateMu, showImages, quitRender>>
    /\ UNCHANGED <<queue, gen, quit, lockVars, nextId, accepted, superseded>>
    /\ UNCHANGED <<thumbInflight, thumbQ, thumbMu, repaintCh, dedupCalls>>
    /\ UNCHANGED tuiFrame

\* deferred: sched.Close(), which closes s.quit
DeferSchedClose ==
    /\ ipc = "d_schedClose"
    /\ quit' = TRUE
    /\ ipc' = "d_clear"
    /\ UNCHANGED <<kpc, kti, kret, kreq, dirty, stateMu, showImages, quitRender>>
    /\ UNCHANGED <<queue, gen, lockVars, nextId, accepted, superseded>>
    /\ UNCHANGED <<thumbInflight, thumbQ, thumbMu, quitThumb, repaintCh, dedupCalls>>
    /\ UNCHANGED tuiFrame

\* coordinator: case <-quitRender: return
CoQuit ==
    /\ kpc = "select"
    /\ quitRender
    /\ kpc' = "exited"
    /\ UNCHANGED <<ipc, kti, kret, kreq, dirty, stateMu, showImages, quitRender>>
    /\ UNCHANGED <<queue, gen, quit, lockVars, nextId, accepted, superseded>>
    /\ UNCHANGED <<thumbInflight, thumbQ, thumbMu, quitThumb, repaintCh, dedupCalls>>
    /\ UNCHANGED tuiFrame

\* coordinator: case <-repaintCh: dirty = true
CoRepaint ==
    /\ kpc = "select"
    /\ repaintCh > 0
    /\ repaintCh' = repaintCh - 1
    /\ dirty' = TRUE
    /\ kframe' = IF kframe.on
                 THEN [kframe EXCEPT !.sigs = IF @ < 2 THEN @ + 1 ELSE @]
                 ELSE kframe
    /\ UNCHANGED <<ipc, kpc, kti, kret, kreq, stateMu, showImages, quitRender>>
    /\ UNCHANGED <<queue, gen, quit, lockVars, nextId, accepted, superseded>>
    /\ UNCHANGED <<thumbInflight, thumbQ, thumbMu, quitThumb, dedupCalls>>
    /\ UNCHANGED tuiFrameK

\* coordinator: case <-ticker.C with dirty set: sched.NextFrame()
\* (a tick with dirty clear continues and changes nothing)
CoTick ==
    /\ kpc = "select"
    /\ dirty
    /\ gen <= MaxFrames
    /\ gen' = GenAdd(gen)
    /\ superseded' = superseded
    /\ kpc' = "lockState"
    /\ kframe' = IF kframe.on
                 THEN [kframe EXCEPT !.nf = @ + 1, !.draws = 0]
                 ELSE kframe
    /\ UNCHANGED <<ipc, kti, kret, kreq, dirty, stateMu, showImages, quitRender>>
    /\ UNCHANGED <<queue, quit, lockVars, nextId, accepted>>
    /\ UNCHANGED <<thumbInflight, thumbQ, thumbMu, quitThumb, repaintCh, dedupCalls>>
    /\ UNCHANGED tuiFrameK

\* coordinator: stateMu.Lock()
CoLockState ==
    /\ kpc = "lockState"
    /\ stateMu = "free"
    /\ stateMu' = "co"
    /\ kpc' = "termLock"
    /\ UNCHANGED <<ipc, kti, kret, kreq, dirty, showImages, quitRender>>
    /\ UNCHANGED <<queue, gen, quit, lockVars, nextId, accepted, superseded>>
    /\ UNCHANGED <<thumbInflight, thumbQ, thumbMu, quitThumb, repaintCh, dedupCalls>>
    /\ UNCHANGED tuiFrame

\* draw(): term.Lock()
CoDrawLock ==
    /\ kpc = "termLock"
    /\ writeMu = "free"
    /\ writeMu' = "co"
    /\ kpc' = "header"
    /\ kframe' = IF kframe.on
                 THEN [kframe EXCEPT !.draws = @ + 1,
                                     !.nfAt = kframe.nf, !.nf = 0,
                                     !.sigsAt = kframe.sigs, !.sigs = 0,
                                     !.prev = MaxOf({kframe.prev} \cup kframe.tags),
                                     !.tags = {}]
                 ELSE kframe
    /\ UNCHANGED <<ipc, kti, kret, kreq, dirty, stateMu, showImages, quitRender>>
    /\ UNCHANGED <<queue, gen, quit, writers, nextId, accepted, superseded>>
    /\ UNCHANGED <<thumbInflight, thumbQ, thumbMu, quitThumb, repaintCh, dedupCalls>>
    /\ UNCHANGED tuiFrameK

\* draw(): the first Fprint; the frame is being written from here to the
\* status line.  Then the prefetch loop starts if showImages is set.
CoDrawBegin ==
    /\ kpc = "header"
    /\ writers' = writers \cup {"co"}
    /\ kti' = 1
    /\ kpc' = IF showImages THEN "prefetch" ELSE "status"
    /\ UNCHANGED <<ipc, kret, kreq, dirty, stateMu, showImages, quitRender>>
    /\ UNCHANGED <<queue, gen, quit, writeMu, nextId, accepted, superseded>>
    /\ UNCHANGED <<thumbInflight, thumbQ, thumbMu, quitThumb, repaintCh, dedupCalls>>
    /\ UNCHANGED tuiFrame

\* draw() and drawTile: ensureThumb takes thumbMu
CoEnsureLock ==
    /\ kpc \in {"prefetch", "tile"}
    /\ thumbMu = "free"
    /\ thumbMu' = "co"
    /\ kpc' = IF kpc = "prefetch" THEN "prefetch_e" ELSE "tile_e"
    /\ UNCHANGED <<ipc, kti, kret, kreq, dirty, stateMu, showImages, quitRender>>
    /\ UNCHANGED <<queue, gen, quit, lockVars, nextId, accepted, superseded>>
    /\ UNCHANGED <<thumbInflight, thumbQ, quitThumb, repaintCh, dedupCalls>>
    /\ UNCHANGED tuiFrame

\* draw(): _, _ = ensureThumb(c.Path, wpx, hpx) of the prefetch loop
CoPrefetch ==
    /\ kpc = "prefetch_e"
    /\ LET k == TileKeys[kti]
           r == EnsureBody(k) IN
        /\ thumbInflight' = r.inflight
        /\ thumbQ' = r.q
    /\ thumbMu' = "free"
    /\ IF kti < Len(TileKeys)
       THEN kti' = kti + 1 /\ kpc' = "prefetch"
       ELSE kti' = 1 /\ kpc' = "tile"
    /\ UNCHANGED <<ipc, kret, kreq, dirty, stateMu, showImages, quitRender>>
    /\ UNCHANGED <<queue, gen, quit, lockVars, nextId, accepted, superseded>>
    /\ UNCHANGED <<quitThumb, repaintCh, dedupCalls>>
    /\ UNCHANGED tuiFrame

\* drawTile: if tp, ok := ensureThumb(c.Path, wpx, hpx); ok && sched != nil
CoTileEnsure ==
    /\ kpc = "tile_e"
    /\ LET k == TileKeys[kti]
           r == EnsureBody(k) IN
        /\ thumbInflight' = r.inflight
        /\ thumbQ' = r.q
        /\ kret' = r.ret
        /\ IF r.ret.ok
           THEN kti' = kti /\ kpc' = "enq"
           ELSE IF kti < Len(TileKeys)
           THEN kti' = kti + 1 /\ kpc' = "tile"
           ELSE kti' = 1 /\ kpc' = "status"
    /\ thumbMu' = "free"
    /\ UNCHANGED <<ipc, kreq, dirty, stateMu, showImages, quitRender>>
    /\ UNCHANGED <<queue, gen, quit, lockVars, nextId, accepted, superseded>>
    /\ UNCHANGED <<quitThumb, repaintCh, dedupCalls>>
    /\ UNCHANGED tuiFrame

\* drawTile: sched.Enqueue(tp, px+1, py+1, innerW, imgH): g := s.gen.Load()
CoEnqueueLoad ==
    /\ kpc = "enq"
    /\ kreq' = [Path |-> kret.tp, W |-> 16, H |-> 3, done |-> 0, gen |-> gen,
                id |-> 0]
    /\ kpc' = "enq_send"
    /\ kframe' = IF kframe.on
                 THEN [kframe EXCEPT !.tags = @ \cup {gen}]
                 ELSE kframe
    /\ UNCHANGED <<ipc, kti, kret, dirty, stateMu, showImages, quitRender>>
    /\ UNCHANGED <<queue, gen, quit, lockVars, nextId, accepted, superseded>>
    /\ UNCHANGED <<thumbInflight, thumbQ, thumbMu, quitThumb, repaintCh, dedupCalls>>
    /\ UNCHANGED tuiFrameK

\* drawTile: sched.Enqueue: the non-blocking send; then the next tile
CoEnqueueSend ==
    /\ kpc = "enq_send"
    /\ queue' = TrySend(queue, kreq)
    /\ kreq' = NoReq
    /\ IF kti < Len(TileKeys)
       THEN kti' = kti + 1 /\ kpc' = "tile"
       ELSE kti' = 1 /\ kpc' = "status"
    /\ UNCHANGED <<ipc, kret, dirty, stateMu, showImages, quitRender>>
    /\ UNCHANGED <<gen, quit, lockVars, nextId, accepted, superseded>>
    /\ UNCHANGED <<thumbInflight, thumbQ, thumbMu, quitThumb, repaintCh, dedupCalls>>
    /\ UNCHANGED tuiFrame

\* draw(): the status line is written, term.Unlock()
CoDrawEnd ==
    /\ kpc = "status"
    /\ writers' = writers \ {"co"}
    /\ writeMu' = "free"
    /\ kpc' = "unlockState"
    /\ UNCHANGED <<ipc, kti, kret, kreq, dirty, stateMu, showImages, quitRender>>
    /\ UNCHANGED <<queue, gen, quit, nextId, accepted, superseded>>
    /\ UNCHANGED <<thumbInflight, thumbQ, thumbMu, quitThumb, repaintCh, dedupCalls>>
    /\ UNCHANGED tuiFrame

\* coordinator: stateMu.Unlock(); dirty = false
CoUnlockState ==
    /\ kpc = "unlockState"
    /\ stateMu' = "free"
    /\ dirty' = FALSE
    /\ kpc' = "select"
    /\ UNCHANGED <<ipc, kti, kret, kreq, showImages, quitRender>>
    /\ UNCHANGED <<queue, gen, quit, lockVars, nextId, accepted, superseded>>
    /\ UNCHANGED <<thumbInflight, thumbQ, thumbMu, quitThumb, repaintCh, dedupCalls>>
    /\ UNCHANGED tuiFrame

(***************************************************************************)
(* Generation Service (internal/thumb/service.go)                          *)
(***************************************************************************)

\* threads calling Generate / GenerateRect
GenCallers == {"g1", "g2"}

cacheVersion == "ffmpeg-v1"

\* source paths: name, extension, and whether the path is relative
SrcPaths ==
    { [name |-> "d/a", ext |-> ".png", rel |-> FALSE],
      [name |-> "d/v", ext |-> ".MP4", rel |-> TRUE] }

\* the calls made: Generate(p, size, d) and GenerateRect(p, w, h, d)
GenArgs ==
    { [fn |-> "Generate", w |-> 160, h |-> 160],
      [fn |-> "GenerateRect", w |-> 160, h |-> 60],
      [fn |-> "GenerateRect", w |-> 160, h |-> 0] }

\* the calls made where GenerateRect is given a dimension that is not
\* positive, and the Generate calls they are compared to
RectArgs ==
    { [fn |-> "Generate", w |-> 160, h |-> 160],
      [fn |-> "Generate", w |-> 0, h |-> 0],
      [fn |-> "GenerateRect", w |-> 0, h |-> 160],
      [fn |-> "GenerateRect", w |-> 0, h |-> 0] }

ToolNames == {"ffmpeg", "vipsthumbnail", "magick"}

\* strings.ToLower on the strings that occur
ToLower(str) ==
    CASE str = ".MP4" -> ".mp4"
      [] str = "Magick" -> "magick"
      [] str = "Kitty" -> "kitty"
      [] str = "AUTO" -> "auto"
      [] OTHER -> str

\* filepath.Abs for a relative path (the path joined to the working directory)
AbsPath(path) == [path EXCEPT !.rel = FALSE]

\* mt.Unix(): whole seconds of a time kept in half seconds
UnixSec(mt) == mt \div 2

maxFirst(a, b) == a
max(a, b) == IF a > b THEN a ELSE b

srcFrameSuffix(path) ==
    IF ToLower(path.ext) \in {".mp4", ".mov", ".mkv", ".webm", ".avi", ".m4v"}
    THEN "[0]" ELSE ""

isVideo(path) == srcFrameSuffix(path) # ""

hasExec(name) == name \in tools

\* the text that is hashed, field by field (the fields are joined by "|";
\* SHA-1 is taken to be free of collisions)
cacheKey(path, size, mt, fsz) ==
    <<path, <<size>>, UnixSec(mt), fsz, cacheVersion>>

cacheKeyRect(path, w, h, mt, fsz) ==
    <<path, <<w, "x", h>>, UnixSec(mt), fsz, cacheVersion>>

NoKey == <<>>

NoArgs == [fn |-> "", w |-> 0, h |-> 0]

\* the locals of a call: its arguments, the square or rect form it is in,
\* what os.Stat read, the fingerprint, the strategy it is at, the tool's
\* result, its return value, and for the record the tools it ran, whether
\* one of them failed, the cache entries it found, and whether it renamed
\* a file to a cache-entry path, and the first fingerprint it computed with
\* the mtime and size that went into it
NoLoc ==
    [fn |-> "", path |-> CHOOSE q \in SrcPaths : TRUE, args |-> NoArgs,
     w |-> 0, h |-> 0,
     mode |-> "", stamp |-> [mt |-> 0, sz |-> 0], key |-> NoKey, i |-> 0,
     runErr |-> FALSE, ret |-> [path |-> NoKey, err |-> ""],
     toolsRun |-> <<>>, toolFailed |-> FALSE, hits |-> <<>>, pub |-> FALSE,
     fp |-> NoKey, fstamp |-> [mt |-> 0, sz |-> 0]]

\* what is kept of a call that has returned
NoLast ==
    [path |-> CHOOSE q \in SrcPaths : TRUE, args |-> NoArgs,
     stamp |-> [mt |-> 0, sz |-> 0], ret |-> [path |-> NoKey, err |-> ""],
     toolsRun |-> <<>>, fp |-> NoKey, fstamp |-> [mt |-> 0, sz |-> 0]]

\* no call running
InitGenCommon ==
    /\ tmp = [c \in GenCallers |-> "none"]
    /\ gpc = [c \in GenCallers |-> "idle"]
    /\ gloc = [c \in GenCallers |-> NoLoc]
    /\ glast = [c \in GenCallers |-> NoLast]
    /\ genCalls = 0
    /\ touches = 0

\* the entries an earlier run has left in the cache directory
WarmCache ==
    [k \in { cacheKey(AbsPath(q), sz, 2, 7) : q \in SrcPaths, sz \in {160} }
         \cup { cacheKeyRect(AbsPath(q), 160, 60, 2, 7) : q \in SrcPaths }
       |-> "complete"]

\* one source file, any set of installed tools, either value of the two
\* overrides, and a cache directory that is empty or holds the entries of an
\* earlier run
InitGen ==
    /\ InitGenCommon
    /\ \E q \in SrcPaths : srcStat = [x \in {AbsPath(q)} |-> [exists |-> TRUE, mt |-> 2, sz |-> 7]]
    /\ cacheDirOK \in BOOLEAN
    /\ tools \in SUBSET ToolNames
    /\ envVideo \in {"", "Magick"}
    /\ envImage \in {"", "Magick"}
    /\ cache \in {<<>>, WarmCache}

\* one environment: both source files, every tool installed, no override,
\* an empty cache
InitGenFixed ==
    /\ InitGenCommon
    /\ srcStat = [q \in {AbsPath(x) : x \in SrcPaths} |->
                    [exists |-> TRUE, mt |-> 2, sz |-> 7]]
    /\ cacheDirOK = TRUE
    /\ tools = ToolNames
    /\ envVideo = ""
    /\ envImage = ""
    /\ cache = <<>>

\* the strategies in the order the function tries them
StrategiesNoFallback(mode) ==
    IF mode = "square" THEN <<"ffmpeg", "vipsthumbnail">> ELSE <<"ffmpeg">>
Strategies(mode) ==
    IF mode = "square" THEN <<"ffmpeg", "vipsthumbnail", "magick">>
    ELSE <<"ffmpeg", "magick">>

\* the condition under which a strategy is attempted
Applicable(tool, abs) ==
    CASE tool = "ffmpeg" ->
           isVideo(abs) /\ hasExec("ffmpeg") /\ ToLower(envVideo) # "magick"
      [] tool = "vipsthumbnail" ->
           ~isVideo(abs) /\ hasExec("vipsthumbnail")
             /\ ToLower(envImage) # "magick"
      [] tool = "magick" -> hasExec("magick")

\* if runErr == nil: the temporary file is renamed to the cache-entry path
RunSucceededAlways(c) == TRUE
RunSucceeded(c) == ~gloc[c].runErr

\* if _, err := os.Stat(out); err == nil
CacheHitNever(out) == FALSE
CacheHit(out) == out \in DOMAIN cache

\* a call starts.  GenerateRect with w <= 0 or h <= 0 is
\* Generate(path, max(w, h), cacheDir).
GenCallWith(c, args) ==
    /\ gpc[c] = "idle"
    /\ genCalls < MaxGenCalls
    /\ \E q \in {x \in SrcPaths : AbsPath(x) \in DOMAIN srcStat}, a \in args :
         gloc' = [gloc EXCEPT ![c] =
                    [NoLoc EXCEPT !.fn = a.fn, !.path = q, !.args = a,
                        !.w = IF a.fn = "GenerateRect" /\ (a.w <= 0 \/ a.h <= 0)
                              THEN max(a.w, a.h) ELSE a.w,
                        !.h = IF a.fn = "GenerateRect" /\ (a.w <= 0 \/ a.h <= 0)
                              THEN max(a.w, a.h) ELSE a.h,
                        !.mode = IF a.fn = "GenerateRect" /\ a.w > 0 /\ a.h > 0
                                 THEN "rect" ELSE "square"]]
    /\ gpc' = [gpc EXCEPT ![c] = "stat"]
    /\ genCalls' = genCalls + 1
    /\ UNCHANGED <<srcStat, cacheDirOK, tools, envVideo, envImage, cache, tmp, glast, touches>>
    /\ UNCHANGED nonGenVars

\* a call with arguments of GenArgs
GenCall(c) == GenCallWith(c, GenArgs)

\* a call with arguments of RectArgs
GenCallRect(c) == GenCallWith(c, RectArgs)

\* os.Stat(abs), the fingerprint, os.MkdirAll(cacheDir): a failure of
\* either is returned
GenStat(c) ==
    /\ gpc[c] = "stat"
    /\ LET l == gloc[c]
           abs == AbsPath(l.path)
           st == srcStat[abs]
           key == IF l.mode = "square"
                  THEN cacheKey(abs, l.w, st.mt, st.sz)
                  ELSE cacheKeyRect(abs, l.w, l.h, st.mt, st.sz) IN
          IF st.exists /\ cacheDirOK
          THEN /\ gloc' = [gloc EXCEPT ![c].stamp = [mt |-> st.mt, sz |-> st.sz],
                                       ![c].key = key,
                                       ![c].fp = IF @ = NoKey THEN key ELSE @,
                                       ![c].fstamp = IF l.fp = NoKey
                                                     THEN [mt |-> st.mt, sz |-> st.sz]
                                                     ELSE @]
               /\ gpc' = [gpc EXCEPT ![c] = "lookup"]
          ELSE /\ gloc' = [gloc EXCEPT ![c].ret =
                             [path |-> NoKey,
                              err |-> IF st.exists THEN "mkdir" ELSE "stat"]]
               /\ gpc' = [gpc EXCEPT ![c] = "ret"]
    /\ UNCHANGED <<srcStat, cacheDirOK, tools, envVideo, envImage, cache, tmp, glast,
                   genCalls, touches>>
    /\ UNCHANGED nonGenVars

\* the existence check of the cache entry
GenLookup(c) ==
    /\ gpc[c] = "lookup"
    /\ IF CacheHit(gloc[c].key)
       THEN /\ gloc' = [gloc EXCEPT ![c].ret = [path |-> gloc[c].key, err |-> ""],
                                    ![c].hits = Append(@, gloc[c].key)]
            /\ gpc' = [gpc EXCEPT ![c] = "ret"]
       ELSE /\ gloc' = [gloc EXCEPT ![c].i = 1]
            /\ gpc' = [gpc EXCEPT ![c] = "try"]
    /\ UNCHANGED <<srcStat, cacheDirOK, tools, envVideo, envImage, cache, tmp, glast,
                   genCalls, touches>>
    /\ UNCHANGED nonGenVars

\* the next strategy: skipped when its condition fails; attempted with
\* os.CreateTemp and the tool started on the temporary file; after the last
\* one Generate returns the error and GenerateRect calls
\* Generate(path, max(w, h), cacheDir)
GenTry(c) ==
    /\ gpc[c] = "try"
    /\ LET l == gloc[c]
           strat == Strategies(l.mode) IN
        IF l.i > Len(strat)
        THEN /\ tmp' = tmp
             /\ IF l.mode = "square"
                THEN /\ gloc' = [gloc EXCEPT ![c].ret =
                                   [path |-> NoKey, err |-> "no image tool available"]]
                     /\ gpc' = [gpc EXCEPT ![c] = "ret"]
                ELSE /\ gloc' = [gloc EXCEPT ![c].mode = "square",
                                             ![c].w = max(l.w, l.h),
                                             ![c].h = max(l.w, l.h)]
                     /\ gpc' = [gpc EXCEPT ![c] = "stat"]
        ELSE IF Applicable(strat[l.i], AbsPath(l.path))
        THEN /\ tmp' = [tmp EXCEPT ![c] = "empty"]
             /\ gloc' = [gloc EXCEPT ![c].toolsRun = Append(@, strat[l.i])]
             /\ gpc' = [gpc EXCEPT ![c] = "run"]
        ELSE /\ tmp' = tmp
             /\ gloc' = [gloc EXCEPT ![c].i = l.i + 1]
             /\ gpc' = [gpc EXCEPT ![c] = "try"]
    /\ UNCHANGED <<srcStat, cacheDirOK, tools, envVideo, envImage, cache, glast, genCalls,
                   touches>>
    /\ UNCHANGED nonGenVars

\* the tool writes to its output file, the temporary file
GenToolWrite(c) ==
    /\ gpc[c] = "run"
    /\ tmp[c] = "empty"
    /\ tmp' = [tmp EXCEPT ![c] = "partial"]
    /\ UNCHANGED <<srcStat, cacheDirOK, tools, envVideo, envImage, cache, gpc, gloc, glast,
                   genCalls, touches>>
    /\ UNCHANGED nonGenVars

\* the tool exits: with status 0 and its output written, or with an error
\* and whatever it wrote
GenToolExit(c) ==
    /\ gpc[c] = "run"
    /\ \E ok \in BOOLEAN :
         /\ ok => tmp[c] = "partial"
         /\ tmp' = [tmp EXCEPT ![c] = IF ok THEN "complete" ELSE @]
         /\ gloc' = [gloc EXCEPT ![c].runErr = ~ok,
                                 ![c].toolFailed = @ \/ ~ok]
    /\ gpc' = [gpc EXCEPT ![c] = "publish"]
    /\ UNCHANGED <<srcStat, cacheDirOK, tools, envVideo, envImage, cache, glast, genCalls,
                   touches>>
    /\ UNCHANGED nonGenVars

\* runErr == nil: os.Rename(tmp, out) and return out; otherwise
\* os.Remove(tmp) and the next strategy
GenPublish(c) ==
    /\ gpc[c] = "publish"
    /\ IF RunSucceeded(c)
       THEN /\ cache' = MapPut(cache, gloc[c].key, tmp[c])
            /\ gloc' = [gloc EXCEPT ![c].ret = [path |-> gloc[c].key, err |-> ""],
                                    ![c].pub = TRUE]
            /\ gpc' = [gpc EXCEPT ![c] = "ret"]
       ELSE /\ cache' = cache
            /\ gloc' = [gloc EXCEPT ![c].i = @ + 1]
            /\ gpc' = [gpc EXCEPT ![c] = "try"]
    /\ tmp' = [tmp EXCEPT ![c] = "none"]
    /\ UNCHANGED <<srcStat, cacheDirOK, tools, envVideo, envImage, glast, genCalls, touches>>
    /\ UNCHANGED nonGenVars

\* the call returns to its caller
GenReturn(c) ==
    /\ gpc[c] = "ret"
    /\ glast' = [glast EXCEPT ![c] =
                    [path |-> gloc[c].path, args |-> gloc[c].args,
                     stamp |-> gloc[c].stamp, ret |-> gloc[c].ret,
                     toolsRun |-> gloc[c].toolsRun,
                     fp |-> gloc[c].fp, fstamp |-> gloc[c].fstamp]]
    /\ gloc' = [gloc EXCEPT ![c] = NoLoc]
    /\ gpc' = [gpc EXCEPT ![c] = "idle"]
    /\ UNCHANGED <<srcStat, cacheDirOK, tools, envVideo, envImage, cache, tmp, genCalls,
                   touches>>
    /\ UNCHANGED nonGenVars

\* the environment: a source file is modified (a later mtime, or a new
\* size) or removed
TouchSource ==
    /\ touches < MaxTouch
    /\ \E q \in DOMAIN srcStat, what \in {"mt", "sz", "rm"} :
         /\ srcStat[q].exists
         /\ srcStat' = [srcStat EXCEPT ![q] =
                          CASE what = "mt" -> [@ EXCEPT !.mt = @ + 1]
                            [] what = "sz" -> [@ EXCEPT !.sz = @ + 1]
                            [] what = "rm" -> [@ EXCEPT !.exists = FALSE]]
    /\ touches' = touches + 1
    /\ UNCHANGED <<cacheDirOK, tools, envVideo, envImage, cache, tmp, gpc, gloc, glast,
                   genCalls>>
    /\ UNCHANGED nonGenVars


(***************************************************************************)
(* Detect and the capability probe kittyProtocolAvailable (part_000)       *)
(***************************************************************************)

\* the arguments Detect is called with
Prefs == {"auto", "", "AUTO", " kitty ", "Kitty", "kitty", "none", "sixel"}

\* strings.TrimSpace on the strings that occur
TrimSpace(str) ==
    CASE str = " kitty " -> "kitty"
      [] str = "10.000000\n" -> "10.000000"
      [] str = "0.300000\n" -> "0.300000"
      [] str = "0.050000\n" -> "0.050000"
      [] str = "4.000000\n" -> "4.000000"
      [] str = "60.000000\n" -> "60.000000"
      [] str = "0.000000\n" -> "0.000000"
      [] str = "-1.000000\n" -> "-1.000000"
      [] str = "N/A\n" -> "N/A"
      [] str = "\n" -> ""
      [] OTHER -> str

\* bytes of the input stream: ESC, "_", "G", and any other byte
Bytes == {"e", "_", "G", "x"}

\* []byte("\x1b_G")
Marker == <<"e", "_", "G">>

\* what the terminal sends in reply to the query, if anything
Responses ==
    { <<>>,
      <<"e", "_", "G", "x">>,
      <<"x", "e", "_", "G">>,
      <<"e", "_", "x", "G">>,
      <<"x", "x">> }

\* the file-status flags: the access mode, and the flags F_SETFL can change
AccessFlags == {"O_RDWR"}
SettableFlags == {"O_NONBLOCK", "O_APPEND"}

\* bytes.Contains
Contains(b, sub) ==
    \E i \in 1..(Len(b) - Len(sub) + 1) : SubSeq(b, i, i + Len(sub) - 1) = sub

\* fcntl(fd, F_SETFL, v): the access mode stays, the settable flags are v's
SetFl(flags, v) == (flags \cap AccessFlags) \cup (v \cap SettableFlags)

\* the deferred fcntl(fdIn, F_SETFL, oldFlags)
RestoreFlagsSkip(flags, old) == flags
RestoreFlags(flags, old) == SetFl(flags, old)

\* case "kitty" / case "auto", "" / default of Detect's switch
DetectKnownAny(p) == TRUE
DetectKnown(p) == p \in {"kitty", "auto", ""}

\* Detect's result for the lowered, trimmed preference p and the probe's
\* answer
DetectResult(p, avail) ==
    CASE p = "kitty" ->
           IF avail THEN [name |-> "kitty", err |-> ""]
           ELSE [name |-> "", err |-> "kitty graphics protocol not available"]
      [] p \in {"auto", ""} ->
           IF avail THEN [name |-> "kitty", err |-> ""]
           ELSE [name |-> "none", err |-> ""]
      [] OTHER -> [name |-> "", err |-> "unknown backend"]

\* New(backend): Name() of the Renderer, or "nil" with the error
NewRenderer(backend) ==
    CASE ToLower(backend) = "kitty" -> "kitty"
      [] ToLower(backend) = "none" -> "none"
      [] OTHER -> "nil"

NoRet == [name |-> "", err |-> ""]

\* Detect has not been called
InitDetectCommon ==
    /\ dpc = "idle"
    /\ entryFlags = {}
    /\ oldFlags = {}
    /\ acc = <<>>
    /\ clock = 0
    /\ pavail = ""
    /\ pexit = ""
    /\ dret = NoRet
    /\ rname = ""

\* one terminal: interactive, blocking input, no reply
InitDetectFixed ==
    /\ InitDetectCommon
    /\ pref = "auto"
    /\ stdinTTY = TRUE
    /\ stdoutTTY = TRUE
    /\ stdinFlags = AccessFlags
    /\ resp = <<>>

\* any preference, any terminal
InitDetect ==
    /\ InitDetectCommon
    /\ pref \in Prefs
    /\ stdinTTY \in BOOLEAN
    /\ stdoutTTY \in BOOLEAN
    /\ stdinFlags \in {AccessFlags \cup f : f \in SUBSET SettableFlags}
    /\ resp \in Responses

\* Detect(pref): the switch on p; the cases "kitty", "auto" and "" call the
\* probe, the default case returns
DetectCall ==
    /\ dpc = "idle"
    /\ IF DetectKnown(ToLower(TrimSpace(pref)))
       THEN /\ dpc' = "check"
            /\ entryFlags' = stdinFlags
            /\ dret' = dret
       ELSE /\ dpc' = "new"
            /\ entryFlags' = entryFlags
            /\ dret' = DetectResult(ToLower(TrimSpace(pref)), FALSE)
    /\ UNCHANGED <<pref, stdinTTY, stdoutTTY, stdinFlags, oldFlags, resp, acc,
                   clock, pavail, pexit, rname>>
    /\ UNCHANGED nonDetVars

\* the probe returns v by the exit path named, before the defer is set up
ProbeReturnEarly(v, path) ==
    /\ pavail' = v
    /\ pexit' = path
    /\ dpc' = "detect"

\* if !xt.IsTerminal(fdIn) || !xt.IsTerminal(fdOut) { return false }
ProbeCheck ==
    /\ dpc = "check"
    /\ IF ~stdinTTY \/ ~stdoutTTY
       THEN ProbeReturnEarly("false", "not a terminal")
       ELSE /\ dpc' = "query"
            /\ UNCHANGED <<pavail, pexit>>
    /\ UNCHANGED <<pref, stdinTTY, stdoutTTY, stdinFlags, entryFlags, oldFlags,
                   resp, acc, clock, dret, rname>>
    /\ UNCHANGED nonDetVars

\* fmt.Fprint(stdout, query): an error returns false
ProbeQuery ==
    /\ dpc = "query"
    /\ \E ok \in BOOLEAN :
         IF ok
         THEN /\ dpc' = "getfl"
              /\ UNCHANGED <<pavail, pexit>>
         ELSE ProbeReturnEarly("false", "write error")
    /\ UNCHANGED <<pref, stdinTTY, stdoutTTY, stdinFlags, entryFlags, oldFlags,
                   resp, acc, clock, dret, rname>>
    /\ UNCHANGED nonDetVars

\* oldFlags, err := fcntl(fdIn, F_GETFL): an error returns false; otherwise
\* the restoring function is deferred
ProbeGetFl ==
    /\ dpc = "getfl"
    /\ \E ok \in BOOLEAN :
         IF ok
         THEN /\ oldFlags' = stdinFlags
              /\ dpc' = "setnb"
              /\ UNCHANGED <<pavail, pexit>>
         ELSE /\ oldFlags' = oldFlags
              /\ ProbeReturnEarly("false", "getfl error")
    /\ UNCHANGED <<pref, stdinTTY, stdoutTTY, stdinFlags, entryFlags, resp, acc,
                   clock, dret, rname>>
    /\ UNCHANGED nonDetVars

\* unix.SetNonblock(fdIn, true): an error returns false; otherwise the
\* deadline is set
ProbeSetNonblock ==
    /\ dpc = "setnb"
    /\ \E ok \in BOOLEAN :
         IF ok
         THEN /\ stdinFlags' = SetFl(stdinFlags, stdinFlags \cup {"O_NONBLOCK"})
              /\ clock' = ProbeTicks
              /\ dpc' = "loop"
              /\ UNCHANGED <<pavail, pexit>>
         ELSE /\ stdinFlags' = stdinFlags
              /\ clock' = clock
              /\ pavail' = "false"
              /\ pexit' = "setnonblock error"
              /\ dpc' = "restore"
    /\ UNCHANGED <<pref, stdinTTY, stdoutTTY, entryFlags, oldFlags, resp, acc,
                   dret, rname>>
    /\ UNCHANGED nonDetVars

\* time.Now().Before(deadline), given the ticks left until the deadline
BeforeDeadlineAlways(left) == TRUE
BeforeDeadline(left) == left > 0

\* for time.Now().Before(deadline): past the deadline the probe returns false
ProbeLoop ==
    /\ dpc = "loop"
    /\ IF BeforeDeadline(clock)
       THEN /\ dpc' = "poll"
            /\ UNCHANGED <<pavail, pexit>>
       ELSE /\ pavail' = "false"
            /\ pexit' = "timeout"
            /\ dpc' = "restore"
    /\ UNCHANGED <<pref, stdinTTY, stdoutTTY, stdinFlags, entryFlags, oldFlags,
                   resp, acc, clock, dret, rname>>
    /\ UNCHANGED nonDetVars

\* unix.Poll(fds, remaining): an error returns false; without POLLIN (the
\* timeout ran out, or part of it did; the timeout is 1 ms when the deadline
\* has passed since the loop's test) the loop continues; with POLLIN the
\* stream is read
ProbePoll ==
    /\ dpc = "poll"
    /\ \E out \in {"error", "none", "pollin"}, d \in 0..clock :
         CASE out = "error" ->
                /\ pavail' = "false"
                /\ pexit' = "poll error"
                /\ dpc' = "restore"
                /\ clock' = clock
           [] out = "none" ->
                /\ d > 0 \/ clock = 0
                /\ clock' = clock - d
                /\ dpc' = "loop"
                /\ UNCHANGED <<pavail, pexit>>
           [] out = "pollin" ->
                /\ clock' = clock - d
                /\ dpc' = "read"
                /\ UNCHANGED <<pavail, pexit>>
    /\ UNCHANGED <<pref, stdinTTY, stdoutTTY, stdinFlags, entryFlags, oldFlags,
                   resp, acc, dret, rname>>
    /\ UNCHANGED nonDetVars

\* n, err := unix.Read(fdIn, buf): n > 0 bytes are appended to acc, and the
\* probe returns true when acc contains the marker; n = 0 with no error,
\* and EAGAIN, continue the loop; another error returns false
ProbeRead ==
    /\ dpc = "read"
    /\ \E out \in {"data", "eof", "eagain", "error"}, n \in 1..Len(resp) + 1 :
         CASE out = "data" ->
                /\ n <= Len(resp)
                /\ acc' = acc \o SubSeq(resp, 1, n)
                /\ resp' = SubSeq(resp, n + 1, Len(resp))
                /\ IF Contains(acc', Marker)
                   THEN /\ pavail' = "true"
                        /\ pexit' = "marker"
                        /\ dpc' = "restore"
                   ELSE /\ dpc' = "loop"
                        /\ UNCHANGED <<pavail, pexit>>
           [] out \in {"eof", "eagain"} ->
                /\ n = 1
                /\ dpc' = "loop"
                /\ UNCHANGED <<acc, resp, pavail, pexit>>
           [] out = "error" ->
                /\ n = 1
                /\ pavail' = "false"
                /\ pexit' = "read error"
                /\ dpc' = "restore"
                /\ UNCHANGED <<acc, resp>>
    /\ UNCHANGED <<pref, stdinTTY, stdoutTTY, stdinFlags, entryFlags, oldFlags,
                   clock, dret, rname>>
    /\ UNCHANGED nonDetVars

\* time passes while the probe is in its loop
ProbeTick ==
    /\ dpc \in {"loop", "poll", "read"}
    /\ clock > 0
    /\ clock' = clock - 1
    /\ UNCHANGED <<dpc, pref, stdinTTY, stdoutTTY, stdinFlags, entryFlags,
                   oldFlags, resp, acc, pavail, pexit, dret, rname>>
    /\ UNCHANGED nonDetVars

\* the deferred function: fcntl(fdIn, F_SETFL, oldFlags); the probe returns
ProbeRestore ==
    /\ dpc = "restore"
    /\ stdinFlags' = RestoreFlags(stdinFlags, oldFlags)
    /\ dpc' = "detect"
    /\ UNCHANGED <<pref, stdinTTY, stdoutTTY, entryFlags, oldFlags, resp, acc,
                   clock, pavail, pexit, dret, rname>>
    /\ UNCHANGED nonDetVars

\* Detect returns on the probe's answer
DetectReturn ==
    /\ dpc = "detect"
    /\ dret' = DetectResult(ToLower(TrimSpace(pref)), pavail = "true")
    /\ dpc' = "new"
    /\ UNCHANGED <<pref, stdinTTY, stdoutTTY, stdinFlags, entryFlags, oldFlags,
                   resp, acc, clock, pavail, pexit, rname>>
    /\ UNCHANGED nonDetVars

\* renderer, _ := term.New(bname)
DetectNew ==
    /\ dpc = "new"
    /\ rname' = NewRenderer(dret.name)
    /\ dpc' = "done"
    /\ UNCHANGED <<pref, stdinTTY, stdoutTTY, stdinFlags, entryFlags, oldFlags,
                   resp, acc, clock, pavail, pexit, dret>>
    /\ UNCHANGED nonDetVars


(***************************************************************************)
(* ffmpegGrab and probeDuration (internal/thumb/service.go).  Durations    *)
(* and offsets are counted in units of 0.1 ms, in which the fractions that *)
(* occur are whole numbers.                                                *)
(***************************************************************************)

\* the w and h ffmpegGrab is called with
GrabDims ==
    { [w |-> 160, h |-> 60], [w |-> 160, h |-> 0], [w |-> 0, h |-> 0] }

\* what ffprobe prints
ProbeOutputs ==
    { "10.000000\n", "0.300000\n", "0.050000\n", "4.000000\n", "60.000000\n",
      "0.000000\n", "-1.000000\n", "N/A\n", "\n", "junk" }

\* strconv.ParseFloat(s, 64) on the strings that occur: the value in units
\* of 0.1 ms, and whether parsing failed
ParseFloat(str) ==
    CASE str = "10.000000" -> [d |-> 100000, perr |-> FALSE]
      [] str = "0.300000" -> [d |-> 3000, perr |-> FALSE]
      [] str = "0.050000" -> [d |-> 500, perr |-> FALSE]
      [] str = "4.000000" -> [d |-> 40000, perr |-> FALSE]
      [] str = "60.000000" -> [d |-> 600000, perr |-> FALSE]
      [] str = "0.000000" -> [d |-> 0, perr |-> FALSE]
      [] str = "-1.000000" -> [d |-> -10000, perr |-> FALSE]
      [] OTHER -> [d |-> 0, perr |-> TRUE]

\* 2.0, 0.5 and 0.1 seconds
DefaultSeek == 20000
MinSeek == 5000
EndMargin == 1000

\* probeDuration, given ffprobe's output and whether it exited with an error
probeDuration(out, exitErr) ==
    IF exitErr THEN [d |-> 0, err |-> "exit"]
    ELSE LET str == TrimSpace(out) IN
         IF str = "" \/ str = "N/A" THEN [d |-> 0, err |-> "no duration"]
         ELSE LET pf == ParseFloat(str) IN
              IF pf.perr \/ ~(pf.d > 0) THEN [d |-> 0, err |-> "bad duration"]
              ELSE [d |-> pf.d, err |-> ""]

\* s := dur * 0.10; if s < 0.5 { s = 0.5 }; if s > dur-0.1 { s = dur - 0.1 }
SeekOfLowLast(dur) ==
    LET s1 == dur \div 10
        s2 == IF s1 > dur - EndMargin THEN dur - EndMargin ELSE s1 IN
    IF s2 < MinSeek THEN MinSeek ELSE s2
SeekOf(dur) ==
    LET s1 == dur \div 10
        s2 == IF s1 < MinSeek THEN MinSeek ELSE s1 IN
    IF s2 > dur - EndMargin THEN dur - EndMargin ELSE s2

\* fmt.Sprintf("%.3f", seek): the offset rounded to the millisecond
FormatMs(u) == (u + 5) \div 10

NoDur == [d |-> 0, err |-> "not probed"]

\* ffmpegGrab has not been called
InitSeekCommon ==
    /\ spc = "idle"
    /\ sbox = [w |-> 0, h |-> 0]
    /\ sdur = NoDur
    /\ seek = 0
    /\ seekStr = 0

\* one call: 160x60, ffprobe installed and printing a duration of 10 s
InitSeekFixed ==
    /\ InitSeekCommon
    /\ sin = [w |-> 160, h |-> 60, ffprobe |-> TRUE, out |-> "10.000000\n",
              exitErr |-> FALSE]

\* any call
InitSeek ==
    /\ InitSeekCommon
    /\ \E dm \in GrabDims, fp \in BOOLEAN, o \in ProbeOutputs, e \in BOOLEAN :
         sin = [w |-> dm.w, h |-> dm.h, ffprobe |-> fp, out |-> o, exitErr |-> e]

\* ffmpegGrab: w and h that are not positive become max(w, h), or 256;
\* seek := 2.0
GrabBox ==
    /\ spc = "idle"
    /\ sbox' = IF sin.w <= 0 \/ sin.h <= 0
               THEN LET size == IF max(sin.w, sin.h) <= 0 THEN 256
                                ELSE max(sin.w, sin.h) IN
                    [w |-> size, h |-> size]
               ELSE [w |-> sin.w, h |-> sin.h]
    /\ seek' = DefaultSeek
    /\ spc' = "probe"
    /\ UNCHANGED <<sin, sdur, seekStr>>
    /\ UNCHANGED nonSeekVars

\* if hasExec("ffprobe") { dur, err := probeDuration(abs) ... }
GrabProbe ==
    /\ spc = "probe"
    /\ IF sin.ffprobe
       THEN /\ sdur' = probeDuration(sin.out, sin.exitErr)
            /\ spc' = "seek"
       ELSE /\ sdur' = sdur
            /\ spc' = "format"
    /\ UNCHANGED <<sin, sbox, seek, seekStr>>
    /\ UNCHANGED nonSeekVars

\* if err == nil && dur > 0.0 { ...; seek = s }
GrabSeek ==
    /\ spc = "seek"
    /\ seek' = IF sdur.err = "" /\ sdur.d > 0 THEN SeekOf(sdur.d) ELSE seek
    /\ spc' = "format"
    /\ UNCHANGED <<sin, sbox, sdur, seekStr>>
    /\ UNCHANGED nonSeekVars

\* seekStr := fmt.Sprintf("%.3f", seek), and ffmpeg is run
GrabFormat ==
    /\ spc = "format"
    /\ seekStr' = FormatMs(seek)
    /\ spc' = "done"
    /\ UNCHANGED <<sin, sbox, sdur, seek>>
    /\ UNCHANGED nonSeekVars

LoopNext ==
    \/ LoopRecv
    \/ LoopCheck
    \/ LoopDraw
    \/ DrawLock
    \/ DrawWrite
    \/ DrawUnlock
    \/ LoopQuit

InitAll == InitSched /\ InitLock /\ InitHist /\ InitPool /\ InitCallers /\ InitTUI

\* the other subsystems as constructed, with one environment of the
\* Generation Service
InitRest ==
    InitAll /\ InitGenFixed /\ InitDetectFixed /\ InitSeekFixed /\ kframe = FrameOff

\* the run starts with the consumer's history recorded
Init == InitRest /\ histOn = TRUE

\* the run starts with no history recorded
InitBare == InitRest /\ histOn = FALSE

Next ==
    \/ LoopNext
    \/ \E c \in Clients : EnqueueLoad(c)
    \/ \E c \in Clients : EnqueueSend(c)
    \/ \E c \in Clients : DrainLoad(c)
    \/ \E c \in Clients : DrainSend(c)
    \/ \E c \in Clients : DrainWait(c)
    \/ \E c \in Clients : NextFrame(c)
    \/ \E c \in Clients : Close(c)

\* The Scheduler with its consumer and two client threads.
Spec == Init /\ [][Next]_vars

TUINext ==
    \/ InputKey
    \/ InputRedraw
    \/ InputMouse
    \/ InputReadError
    \/ InputLock
    \/ InputMutate
    \/ InputMouseLayout
    \/ InputPageRead
    \/ InputSignal
    \/ InputWriteBegin
    \/ InputWriteEnd
    \/ DeferCloseRender
    \/ DeferWait
    \/ DeferCloseThumb
    \/ DeferSchedClose
    \/ CoQuit
    \/ CoRepaint
    \/ CoTick
    \/ CoLockState
    \/ CoDrawLock
    \/ CoDrawBegin
    \/ CoEnsureLock
    \/ CoPrefetch
    \/ CoTileEnsure
    \/ CoEnqueueLoad
    \/ CoEnqueueSend
    \/ CoDrawEnd
    \/ CoUnlockState
    \/ LoopNext
    \/ \E w \in TUIWorkers : WorkerRecv(w)
    \/ \E w \in TUIWorkers : WorkerGen(w)
    \/ \E w \in TUIWorkers : WorkerLock(w)
    \/ \E w \in TUIWorkers : WorkerUpdate(w)
    \/ \E w \in TUIWorkers : WorkerSignal(w)
    \/ \E w \in TUIWorkers : WorkerQuit(w)

\* runGridTUI with graphics: the main thread, the repaint coordinator, the
\* Scheduler's consumer and the workers.
SpecTUI == InitBare /\ [][TUINext]_vars

\* the thread whose calls run one after the other in SpecGen
SeqCallers == {"g1"}

GenNext ==
    \/ \E c \in SeqCallers : GenCall(c)
    \/ \E c \in SeqCallers : GenStat(c)
    \/ \E c \in SeqCallers : GenLookup(c)
    \/ \E c \in SeqCallers : GenTry(c)
    \/ \E c \in SeqCallers : GenToolWrite(c)
    \/ \E c \in SeqCallers : GenToolExit(c)
    \/ \E c \in SeqCallers : GenPublish(c)
    \/ \E c \in SeqCallers : GenReturn(c)
    \/ TouchSource

GenConcNext ==
    \/ \E c \in GenCallers : GenCall(c)
    \/ \E c \in GenCallers : GenStat(c)
    \/ \E c \in GenCallers : GenLookup(c)
    \/ \E c \in GenCallers : GenTry(c)
    \/ \E c \in GenCallers : GenToolWrite(c)
    \/ \E c \in GenCallers : GenToolExit(c)
    \/ \E c \in GenCallers : GenPublish(c)
    \/ \E c \in GenCallers : GenReturn(c)

\* The Generation Service called by one thread, call after call, in every
\* environment, with the source files changing.
InitEnv ==
    /\ InitAll /\ InitGen /\ InitDetectFixed /\ InitSeekFixed
    /\ histOn = FALSE /\ kframe = FrameOff

SpecGen == InitEnv /\ [][GenNext]_vars

\* The Generation Service called by two threads at once.
SpecGenConc == InitBare /\ [][GenConcNext]_vars

(***************************************************************************)
(* Claims about the output stream, checked under SpecTUI.                  *)
(***************************************************************************)

\* C7 as claimed: every thread that is writing to the output stream holds
\* the write lock, so no two threads write at the same time.
C7_OutputMutualExclusion ==
    /\ \A t \in writers : writeMu = t
    /\ Cardinality(writers) <= 1

PoolNext ==
    \/ \E u \in Callers : EnsureLock(u)
    \/ \E u \in Callers : EnsureReturn(u)
    \/ \E w \in Workers : WorkerRecv(w)
    \/ \E w \in Workers : WorkerGen(w)
    \/ \E w \in Workers : WorkerLock(w)
    \/ \E w \in Workers : WorkerUpdate(w)
    \/ \E w \in Workers : WorkerSignal(w)
    \/ \E w \in Workers : WorkerQuit(w)
    \/ CloseThumb
    \/ CoRepaint

\* The worker pool with two workers and two threads calling ensureThumb.
SpecPool == Init /\ [][PoolNext]_vars

\* number of generations of key k that are pending: entries of the request
\* queue plus workers that hold k and have not yet removed it
PendingCount(k) ==
    Cardinality({i \in 1..Len(thumbQ) : thumbQ[i] = k})
      + Cardinality({w \in Workers :
                       wkey[w] = k /\ wpc[w] \in {"gen", "lock", "update"}})

\* C4: at most one generation of a key is pending at any time, a pending
\* key is in the In-Flight Set, and while a key stays in flight GenerateRect
\* is invoked for it at most once however many ensureThumb calls are made.
C4_Dedup ==
    \A k \in Keys :
        /\ PendingCount(k) <= 1
        /\ PendingCount(k) = 1 => k \in thumbInflight
        /\ roundInv[k] <= 1
        /\ roundInv[k] + Cardinality({i \in 1..Len(thumbQ) : thumbQ[i] = k})
             = PendingCount(k)

\* two ensureThumb calls found the key in flight while its one generation
\* was running
C4_Witness ==
    \E k \in Keys :
        /\ dedupCalls[k] >= 2
        /\ roundInv[k] = 1
        /\ PendingCount(k) = 1

(***************************************************************************)
(* Claims about the Scheduler, checked under Spec.                         *)
(***************************************************************************)

\* position of id in the order of acceptance (0 when never accepted)
AcceptPos(id) ==
    IF \E i \in 1..Len(accepted) : accepted[i] = id
    THEN CHOOSE i \in 1..Len(accepted) : accepted[i] = id
    ELSE 0

\* ids the consumer is done with: dropped as stale, or Draw has returned
Processed ==
    droppedStale \cup {id \in DrawnIds : loopReq.id # id}

\* C1: a Draw Request that was still in the queue when NextFrame() was
\* called is dropped by the consumer: Renderer.Draw is never invoked for it.
C1_StaleFrameSuppressed ==
    \A i \in 1..Len(drawLog) : drawLog[i].id \notin superseded

\* a request was overtaken by NextFrame in the queue and then dropped, while
\* another request was drawn
C1_Witness ==
    /\ superseded \cap droppedStale # {}
    /\ drawLog # <<>>

\* C2: Drain() returns only after every Draw Request accepted before its
\* barrier has been dequeued and either drawn (Draw returned) or dropped as
\* stale, and no barrier is ever passed to Renderer.Draw.
C2_DrainBarrier ==
    /\ \A b \in drainReturned :
         /\ drainBefore[b] \subseteq Processed
         /\ drainBefore[b] \cap (DrawIds(queue) \cup {loopReq.id}) = {}
    /\ DrawnIds \cap DOMAIN drainBefore = {}

\* a Drain returned whose barrier had a drawn and a dropped request before it
C2_Witness ==
    \E b \in drainReturned :
        /\ drainBefore[b] \cap DrawnIds # {}
        /\ drainBefore[b] \cap droppedStale # {}

\* C3: an Enqueue that finds the queue full returns at once (it is enabled
\* and ends in one step), leaves the queue as it was, and its request is
\* never in the queue, never held by the consumer and never drawn.
C3_Backpressure ==
    [][ /\ \A c \in Clients :
             (cpc[c] = "enq" /\ cpc'[c] # "enq" /\ Len(queue) >= QueueCap)
                => /\ queue' = queue
                   /\ cpc'[c] = "idle"
                   /\ creq[c].id \in rejected'
        /\ rejected' \cap (DrawnIds' \cup SeqIds(queue') \cup {loopReq'.id}) = {}
      ]_vars

\* a request was rejected by a full queue and the requests that filled the
\* queue have been drawn since
C3_Witness ==
    /\ rejected # {}
    /\ Len(drawLog) >= QueueCap
    /\ queue = <<>>

\* C6: two requests with the same tag that both reach Renderer.Draw are
\* drawn in the order in which the queue accepted them.
C6_FifoWithinGeneration ==
    \A i, j \in 1..Len(drawLog) :
        (i < j /\ drawLog[i].tag = drawLog[j].tag)
            => AcceptPos(drawLog[i].id) < AcceptPos(drawLog[j].id)

\* two requests of one generation were drawn, sent by different calls that
\* built them in the other order
C6_Witness ==
    \E i, j \in 1..Len(drawLog) :
        /\ i < j
        /\ drawLog[i].tag = drawLog[j].tag
        /\ drawLog[i].id > drawLog[j].id

\* C8 as claimed: when Renderer.Draw is invoked for a request, the request's
\* tag is not less than the Frame Generation Counter.
C8_NoStaleDraw ==
    \A i \in 1..Len(drawLog) : drawLog[i].tag >= drawLog[i].genAt

(***************************************************************************)
(* Claims about the Generation Service.                                    *)
(***************************************************************************)

\* C5: when a thread calls Generate(p, s, d) twice in succession, the first
\* call returned a path, and the second call finds the source with the same
\* mtime and size, the second call returns the same path and runs no tool.
C5_GenerateIdempotent ==
    \A c \in GenCallers :
        ( /\ gpc[c] = "ret"
          /\ gloc[c].args.fn = "Generate"
          /\ glast[c].args = gloc[c].args
          /\ glast[c].path = gloc[c].path
          /\ glast[c].ret.err = ""
          /\ glast[c].stamp = gloc[c].stamp )
        => /\ gloc[c].ret = glast[c].ret
           /\ gloc[c].toolsRun = <<>>

\* the second of two such calls returns, the first having run a tool
C5_Witness ==
    \E c \in GenCallers :
        /\ gpc[c] = "ret"
        /\ gloc[c].args.fn = "Generate"
        /\ glast[c].args = gloc[c].args
        /\ glast[c].path = gloc[c].path
        /\ glast[c].ret.err = ""
        /\ glast[c].stamp = gloc[c].stamp
        /\ glast[c].toolsRun # <<>>
        /\ gloc[c].hits # <<>>

\* C9: every file at a cache-entry path is completely written, and the
\* cache changes only when a call whose tool succeeded renames its complete
\* temporary file to its cache-entry path.
C9_AtomicPublication ==
    [][ /\ \A k \in DOMAIN cache' : cache'[k] = "complete"
        /\ cache' # cache =>
             \E c \in GenCallers :
                 /\ gpc[c] = "publish"
                 /\ ~gloc[c].runErr
                 /\ tmp[c] = "complete"
                 /\ tmp'[c] = "none"
                 /\ cache' = MapPut(cache, gloc[c].key, "complete")
      ]_vars

\* one call has published the entry of a fingerprint while another call's
\* tool is half way through writing its temporary file for the same one
C9_Witness ==
    \E c1, c2 \in GenCallers :
        /\ c1 # c2
        /\ gloc[c1].key = gloc[c2].key
        /\ gpc[c1] = "run" /\ tmp[c1] = "partial"
        /\ gpc[c2] = "ret" /\ gloc[c2].pub
        /\ gloc[c2].key \in DOMAIN cache

\* the call's source exists and its cache directory can be made
GenPre(c) == srcStat[AbsPath(gloc[c].path)].exists /\ cacheDirOK

\* with magick the only tool and no tool run failing, the call returns a
\* path and has run nothing but magick
OnlyMagickSucceeds(c) ==
    (tools = {"magick"} /\ ~gloc[c].toolFailed)
        => /\ gloc[c].ret.err = ""
           /\ \A i \in 1..Len(gloc[c].toolsRun) : gloc[c].toolsRun[i] = "magick"

\* the call returns the exhaustion error, having published nothing
Exhausted(c) ==
    /\ gloc[c].ret.err = "no image tool available"
    /\ gloc[c].ret.path = NoKey
    /\ ~gloc[c].pub

\* C10 as claimed: with magick the only tool, and succeeding, Generate and
\* GenerateRect succeed using only magick; with no tool resolvable the call
\* returns the exhaustion error and publishes no cache entry.
C10_FallbackCompleteness ==
    \A c \in GenCallers :
        (gpc[c] = "ret" /\ GenPre(c))
            => /\ OnlyMagickSucceeds(c)
               /\ tools = {} => Exhausted(c)

\* C10 amended: ... with no tool resolvable and no cache entry found for a
\* fingerprint the call looks up, the call returns the exhaustion error and
\* publishes no cache entry.
C10_FallbackOnMiss ==
    \A c \in GenCallers :
        (gpc[c] = "ret" /\ GenPre(c))
            => /\ OnlyMagickSucceeds(c)
               /\ (tools = {} /\ gloc[c].hits = <<>>) => Exhausted(c)

\* a video call has succeeded through magick alone, the only tool
C10_Witness ==
    \E c \in GenCallers :
        /\ gpc[c] = "ret" /\ GenPre(c)
        /\ tools = {"magick"}
        /\ isVideo(AbsPath(gloc[c].path))
        /\ gloc[c].args.fn = "GenerateRect"
        /\ gloc[c].toolsRun = <<"magick">>
        /\ gloc[c].pub

\* C11: for a fixed path, target dimensions and cache version, a change of
\* the source's modification time alone, or of its size alone, between two
\* calls makes the second call compute a different cache path than the
\* first.
C11_FingerprintSensitive ==
    \A c \in GenCallers :
        ( /\ gpc[c] = "ret"
          /\ gloc[c].fp # NoKey /\ glast[c].fp # NoKey
          /\ glast[c].args = gloc[c].args
          /\ AbsPath(glast[c].path) = AbsPath(gloc[c].path)
          /\ \/ /\ glast[c].fstamp.mt # gloc[c].fstamp.mt
                /\ glast[c].fstamp.sz = gloc[c].fstamp.sz
             \/ /\ glast[c].fstamp.mt = gloc[c].fstamp.mt
                /\ glast[c].fstamp.sz # gloc[c].fstamp.sz )
        => gloc[c].fp # glast[c].fp

DetectNext ==
    \/ DetectCall
    \/ ProbeCheck
    \/ ProbeQuery
    \/ ProbeGetFl
    \/ ProbeSetNonblock
    \/ ProbeLoop
    \/ ProbePoll
    \/ ProbeRead
    \/ ProbeTick
    \/ ProbeRestore
    \/ DetectReturn
    \/ DetectNew

InitProbe ==
    /\ InitAll /\ InitGenFixed /\ InitDetect /\ InitSeekFixed
    /\ histOn = FALSE /\ kframe = FrameOff

\* Detect called at start-up, for any preference and terminal.
SpecDetect == InitProbe /\ [][DetectNext]_vars

\* the steps of the thread that called Detect
DetectStep ==
    \/ DetectCall
    \/ ProbeCheck
    \/ ProbeQuery
    \/ ProbeGetFl
    \/ ProbeSetNonblock
    \/ ProbeLoop
    \/ ProbePoll
    \/ ProbeRead
    \/ ProbeRestore
    \/ DetectReturn
    \/ DetectNew

\* Detect called at start-up: the calling thread keeps running (none of its
\* system calls blocks: the stream is non-blocking and poll has a timeout),
\* and time passes.
SpecDetectLive ==
    InitProbe /\ [][DetectNext]_vars /\ WF_vars(DetectStep) /\ WF_vars(ProbeTick)

\* the probe has returned to Detect
ProbeReturned == dpc \in {"detect", "new", "done"} /\ pexit # ""

\* C12: on every exit path of the probe the input stream's file-status
\* flags after the probe returns equal the flags it had when the probe was
\* entered.
C12_ProbeRestoresFlags ==
    ProbeReturned => stdinFlags = entryFlags

\* the probe set the stream non-blocking, which it was not, and has
\* returned after seeing the marker
C12_Witness ==
    /\ ProbeReturned
    /\ pexit = "marker"
    /\ "O_NONBLOCK" \notin entryFlags
    /\ "O_APPEND" \in entryFlags

\* Detect has returned
DetectReturned == dpc \in {"new", "done"}

\* C13: Detect returns "kitty" when the probe sees the response marker; for
\* preference auto or empty it returns "none" with no error whenever the
\* probe fails, whatever the reason, and the Renderer made from it is the
\* no-graphics one; it returns an error only when kitty was requested and
\* the probe failed, or the backend name is unknown.
C13_DetectOutcomes ==
    LET pr == ToLower(TrimSpace(pref)) IN
    /\ pavail = "true" => Contains(acc, Marker)
    /\ DetectReturned =>
         /\ pavail = "true" => dret = [name |-> "kitty", err |-> ""]
         /\ (pr \in {"auto", ""} /\ pavail # "true")
              => dret = [name |-> "none", err |-> ""]
         /\ dret.err # "" =>
              \/ pr = "kitty" /\ pavail = "false"
              \/ pr \notin {"kitty", "auto", ""}
    /\ (dpc = "done" /\ pr \in {"auto", ""}) =>
         rname = IF pavail = "true" THEN "kitty" ELSE "none"

\* Detect("AUTO") has returned "none" after a read error in the probe, and
\* the no-graphics Renderer was made
C13_Witness ==
    /\ dpc = "done"
    /\ pref = "AUTO"
    /\ pexit = "read error"
    /\ dret = [name |-> "none", err |-> ""]
    /\ rname = "none"

RectNext ==
    \/ \E c \in SeqCallers : GenCallRect(c)
    \/ \E c \in SeqCallers : GenStat(c)
    \/ \E c \in SeqCallers : GenLookup(c)
    \/ \E c \in SeqCallers : GenTry(c)
    \/ \E c \in SeqCallers : GenToolWrite(c)
    \/ \E c \in SeqCallers : GenToolExit(c)
    \/ \E c \in SeqCallers : GenPublish(c)
    \/ \E c \in SeqCallers : GenReturn(c)

\* Generate, and GenerateRect with a dimension that is not positive, called
\* by one thread, call after call, in every environment.
SpecRect == InitEnv /\ [][RectNext]_vars

\* the call is GenerateRect with w <= 0 or h <= 0
Delegated(c) ==
    /\ gloc[c].args.fn = "GenerateRect"
    /\ gloc[c].args.w <= 0 \/ gloc[c].args.h <= 0

\* the positions of strat at which the tools of run stand, in order
InOrder(run, strat) ==
    \A i \in 1..Len(run) :
        /\ \E j \in 1..Len(strat) : strat[j] = run[i]
        /\ \A k \in 1..Len(run) :
             i < k => \E j1, j2 \in 1..Len(strat) :
                         j1 < j2 /\ strat[j1] = run[i] /\ strat[j2] = run[k]

\* the call is, in its locals and effects, a call Generate(p, m, d): the
\* fingerprint is the square one of size m, the tools attempted are those of
\* Generate in Generate's order, the path returned is that fingerprint's,
\* and nothing but that entry was looked up or published
AsGenerate(c, m) ==
    LET l == gloc[c]
        k == cacheKey(AbsPath(l.path), m, l.stamp.mt, l.stamp.sz) IN
    /\ l.mode = "square" /\ l.w = m /\ l.h = m
    /\ l.key \in {NoKey, k}
    /\ l.ret.path \in {NoKey, k}
    /\ InOrder(l.toolsRun, Strategies("square"))
    /\ \A i \in 1..Len(l.hits) : l.hits[i] = k
    /\ l.pub => (k \in DOMAIN cache /\ l.ret = [path |-> k, err |-> ""])
    /\ (gpc[c] = "ret" /\ l.ret.err = "")
         => (l.ret.path = k /\ k \in DOMAIN cache)

\* the larger of the call's two dimensions
LargerArg(c) ==
    IF gloc[c].args.w > gloc[c].args.h THEN gloc[c].args.w ELSE gloc[c].args.h

\* C14: for w <= 0 or h <= 0, GenerateRect(p, w, h, d) is in every state the
\* call Generate(p, max(w, h), d): same fingerprint, same tools in the same
\* order, same path or error, same cache entry; after a successful
\* Generate(p, max(w, h), d) on the unchanged source it returns, as Generate
\* would, the same path without running a tool.
C14_RectDelegation ==
    \A c \in GenCallers :
        /\ (gpc[c] # "idle" /\ Delegated(c))
             => AsGenerate(c, LargerArg(c))
        /\ (gpc[c] # "idle" /\ gloc[c].args.fn = "Generate")
             => AsGenerate(c, gloc[c].args.w)
        /\ ( /\ gpc[c] = "ret" /\ Delegated(c)
             /\ glast[c].args.fn = "Generate"
             /\ glast[c].args.w = LargerArg(c)
             /\ glast[c].path = gloc[c].path
             /\ glast[c].ret.err = ""
             /\ glast[c].stamp = gloc[c].stamp )
           => (gloc[c].ret = glast[c].ret /\ gloc[c].toolsRun = <<>>)

\* GenerateRect(p, 0, 0, d) returns what the Generate(p, 0, d) before it
\* published
C14_Witness ==
    \E c \in GenCallers :
        /\ gpc[c] = "ret" /\ Delegated(c)
        /\ gloc[c].args.w = 0 /\ gloc[c].args.h = 0
        /\ glast[c].args.fn = "Generate"
        /\ glast[c].path = gloc[c].path
        /\ glast[c].toolsRun # <<>>
        /\ glast[c].ret.err = ""
        /\ gloc[c].ret = glast[c].ret

SeekNext ==
    \/ GrabBox
    \/ GrabProbe
    \/ GrabSeek
    \/ GrabFormat

InitGrab ==
    /\ InitAll /\ InitGenFixed /\ InitDetectFixed /\ InitSeek
    /\ histOn = FALSE /\ kframe = FrameOff

\* ffmpegGrab called once, with any dimensions and any answer of ffprobe.
SpecSeek == InitGrab /\ [][SeekNext]_vars

\* the duration probe was absent, failed, or gave no positive duration
ProbeUnusable == sdur.err # ""

\* the probe gave the duration d
Probed(d) == sdur.err = "" /\ sdur.d = d

\* max(0.5, min(0.10*D, D-0.1)) in units of 0.1 ms
MaxMin(d) ==
    LET m == IF d \div 10 < d - EndMargin THEN d \div 10 ELSE d - EndMargin IN
    IF m > MinSeek THEN m ELSE MinSeek

\* min(max(0.5, 0.10*D), D-0.1) in units of 0.1 ms
MinMax(d) ==
    LET m == IF d \div 10 > MinSeek THEN d \div 10 ELSE MinSeek IN
    IF m < d - EndMargin THEN m ELSE d - EndMargin

\* C15 as claimed: the seek offset is 1.0 for D = 10.0, is
\* max(0.5, min(0.10*D, D-0.1)) for D = 0.3, and is 2.0 whenever the probe
\* is absent, fails, or yields a non-positive duration.
C15_SeekFormula ==
    spc = "done" =>
        /\ Probed(100000) => seek = 10000
        /\ Probed(3000) => seek = MaxMin(3000)
        /\ ProbeUnusable => seek = DefaultSeek

\* C15 amended: the seek offset is 1.0 for D = 10.0, is
\* min(max(0.5, 0.10*D), D-0.1) = 0.2 for D = 0.3, and is 2.0 whenever the
\* probe is absent, fails, or yields a non-positive duration.
C15_SeekClamped ==
    spc = "done" =>
        /\ Probed(100000) => (seek = 10000 /\ seekStr = 1000)
        /\ Probed(3000) => (seek = MinMax(3000) /\ seek = 2000 /\ seekStr = 200)
        /\ ProbeUnusable => (seek = DefaultSeek /\ seekStr = 2000)

\* ffmpegGrab has computed the offset for a probed duration of 0.3 s
C15_Witness ==
    spc = "done" /\ Probed(3000) /\ seek = 2000

\* C16: a key leaves the In-Flight Set only in the step in which the worker
\* that dequeued it, its GenerateRect call having returned, holds thumbMu
\* and updates the Ready Map; that step removes the key, which is in the
\* set, and no other, whether the generation succeeded or failed; so an
\* entry is removed once, by that worker.
C16_InflightRemoval ==
    [][ /\ \A k \in Keys :
             (k \in thumbInflight /\ k \notin thumbInflight') =>
                 \E w \in Workers :
                     /\ wpc[w] = "update" /\ wpc'[w] = "signal"
                     /\ wkey[w] = k
                     /\ thumbMu = w /\ thumbMu' = "free"
                     /\ thumbInflight' = thumbInflight \ {k}
                     /\ thumbReady' = IF wres[w].err THEN thumbReady
                                      ELSE MapPut(thumbReady, k, wres[w].tp)
        /\ \A w \in Workers :
             /\ (wpc[w] = "update" /\ wpc'[w] # "update") =>
                    /\ wkey[w] \in thumbInflight
                    /\ wkey[w] \notin thumbInflight'
             /\ wpc[w] \in {"gen", "lock", "update"} => wkey[w] \in thumbInflight
             /\ \A w2 \in Workers :
                    (w2 # w /\ wpc[w] \in {"gen", "lock", "update"}
                            /\ wpc[w2] \in {"gen", "lock", "update"})
                        => wkey[w] # wkey[w2]
      ]_vars

\* a worker whose generation failed has removed its key, which is not ready
C16_Witness ==
    \E w \in Workers :
        /\ wpc[w] = "signal"
        /\ wres[w].err
        /\ wkey[w] \notin thumbInflight
        /\ wkey[w] \notin DOMAIN thumbReady

\* C17: a key in the Ready Map stays in it with the same path, is not in
\* the In-Flight Set or the request queue, and an ensureThumb call for it
\* returns (path, true) and changes neither the queue nor the set.
C17_ReadyAppendOnly ==
    [][ \A k \in DOMAIN thumbReady :
          /\ k \in DOMAIN thumbReady'
          /\ thumbReady'[k] = thumbReady[k]
          /\ k \notin thumbInflight /\ k \notin thumbInflight'
          /\ \A i \in 1..Len(thumbQ') : thumbQ'[i] # k
          /\ \A u \in Callers :
               (upc[u] = "ensure" /\ ukey[u] = k /\ upc'[u] = "idle") =>
                   /\ uret'[u] = [tp |-> thumbReady[k], ok |-> TRUE]
                   /\ thumbQ' = thumbQ
                   /\ thumbInflight' = thumbInflight
      ]_vars

\* an ensureThumb call has returned the path of a ready key
C17_Witness ==
    \E u \in Callers :
        /\ upc[u] = "idle"
        /\ uret[u].ok
        /\ ukey[u] \in DOMAIN thumbReady
        /\ uret[u].tp = thumbReady[ukey[u]]

\* C18: for an image source with vipsthumbnail resolvable and no override,
\* Generate and GenerateRect attempt vipsthumbnail before magick; for both
\* source kinds no strategy is attempted after magick has been tried.
C18_ToolChainOrder ==
    \A c \in GenCallers :
        LET run == gloc[c].toolsRun
            abs == AbsPath(gloc[c].path) IN
        gpc[c] # "idle" =>
            /\ (~isVideo(abs) /\ hasExec("vipsthumbnail")
                    /\ ToLower(envImage) # "magick")
                 => \A i \in 1..Len(run) :
                        run[i] = "magick"
                            => \E j \in 1..(i - 1) : run[j] = "vipsthumbnail"
            /\ \A i \in 1..Len(run) : run[i] = "magick" => i = Len(run)

\* C19 (its safety half): once quitThumb is closed no worker dequeues a
\* further key from the request queue; a worker finishes at most the
\* generation it is running and exits.
C19_NoDequeueAfterStop ==
    [][ quitThumb =>
          \A w \in Workers :
              /\ ~(wpc[w] = "select" /\ wpc'[w] = "gen")
              /\ wpc[w] = "select" => wpc'[w] \in {"select", "exited"}
      ]_vars

FrameNext ==
    \/ InputKey
    \/ InputRedraw
    \/ InputMouse
    \/ InputLock
    \/ InputMutate
    \/ InputMouseLayout
    \/ InputPageRead
    \/ InputSignal
    \/ CoRepaint
    \/ CoTick
    \/ CoLockState
    \/ CoDrawLock
    \/ CoDrawBegin
    \/ CoEnsureLock
    \/ CoPrefetch
    \/ CoTileEnsure
    \/ CoEnqueueLoad
    \/ CoEnqueueSend
    \/ CoDrawEnd
    \/ CoUnlockState
    \/ LoopRecv
    \/ LoopCheck
    \/ LoopDraw
    \/ DrawLock
    \/ DrawWrite
    \/ DrawUnlock
    \/ \E w \in TUIWorkers : WorkerRecv(w)
    \/ \E w \in TUIWorkers : WorkerGen(w)
    \/ \E w \in TUIWorkers : WorkerLock(w)
    \/ \E w \in TUIWorkers : WorkerUpdate(w)
    \/ \E w \in TUIWorkers : WorkerSignal(w)

InitFrame ==
    /\ InitAll /\ InitGenFixed /\ InitDetectFixed /\ InitSeekFixed
    /\ histOn = FALSE /\ kframe = FrameOn

\* runGridTUI while the interactive loop runs, with the history of the
\* coordinator's frames recorded.
SpecFrame == InitFrame /\ [][FrameNext]_vars

\* C20: at most one full-frame draw happens per tick, however many repaint
\* signals were received; each draw is preceded by exactly one NextFrame();
\* the Draw Requests one frame builds carry one tag, and that tag is greater
\* than the tag of every request built by an earlier frame.
C20_OneFramePerTick ==
    kframe.on =>
        /\ kframe.draws <= 1
        /\ kframe.draws = 1 => kframe.nfAt = 1
        /\ Cardinality(kframe.tags) <= 1
        /\ \A t \in kframe.tags : t > kframe.prev

\* a frame drawn after two or more repaint signals has built a request,
\* as an earlier frame had
C20_Witness ==
    /\ kframe.on
    /\ kframe.draws = 1
    /\ kframe.sigsAt >= 2
    /\ kframe.tags # {}
    /\ kframe.prev > 0

\* C30: for every positive probed duration D, the seek offset passed to the
\* frame-extraction tool lies inside the media: 0 <= seek <= D, also for
\* clips shorter than 0.6 s.
C30_SeekInsideMedia ==
    (spc = "done" /\ sin.ffprobe /\ sdur.err = "" /\ sdur.d > 0) =>
        /\ 0 <= seek /\ seek <= sdur.d
        /\ 0 <= seekStr

\* the call is GenerateRect with w > 0 and h > 0
RectCall(a) == a.fn = "GenerateRect" /\ a.w > 0 /\ a.h > 0

\* C29: whenever GenerateRect(p, w, h, d) with w > 0 and h > 0 returns a
\* path without error, the path is the cache entry named by the w x h rect
\* fingerprint, so a repetition of the call with the source unchanged returns
\* the same path and runs no tool.
C29_RectCacheHit ==
    \A c \in GenCallers :
        (gpc[c] = "ret" /\ RectCall(gloc[c].args) /\ gloc[c].ret.err = "") =>
            /\ gloc[c].ret.path =
                   cacheKeyRect(AbsPath(gloc[c].path), gloc[c].args.w,
                                gloc[c].args.h, gloc[c].fstamp.mt, gloc[c].fstamp.sz)
            /\ ( /\ glast[c].args = gloc[c].args
                 /\ glast[c].path = gloc[c].path
                 /\ glast[c].ret.err = ""
                 /\ glast[c].fstamp = gloc[c].fstamp
                 /\ glast[c].stamp = gloc[c].stamp )
               => /\ gloc[c].ret = glast[c].ret
                  /\ gloc[c].toolsRun = <<>>

\* C23: during one Generate or GenerateRect call each strategy (ffmpeg,
\* vipsthumbnail, magick) is invoked at most once, also when every strategy
\* fails.
C23_NoRetryWithinCall ==
    \A c \in GenCallers :
        \A i, j \in 1..Len(gloc[c].toolsRun) :
            gloc[c].toolsRun[i] = gloc[c].toolsRun[j] => i = j

\* the exits of the probe's polling loop
LoopExits == {"marker", "poll error", "read error", "timeout"}

\* C24: the capability probe always returns; its polling loop, once entered,
\* ends with the marker seen, with an I/O error, or with the timeout
\* elapsed, whatever bytes arrive, and it is not entered again once the
\* deadline has passed.
C24_ProbeTerminates ==
    /\ (dpc = "check") ~> ProbeReturned
    /\ (dpc \in {"loop", "poll", "read"}) ~> (ProbeReturned /\ pexit \in LoopExits)
    /\ [](ProbeReturned /\ pexit = "marker" => Contains(acc, Marker))
    /\ [](ProbeReturned /\ pexit = "timeout" => clock = 0)

\* the probe has returned at the deadline, after bytes that do not hold the
\* marker arrived
C24_Witness ==
    /\ ProbeReturned
    /\ pexit = "timeout"
    /\ acc # <<>>
    /\ ~Contains(acc, Marker)

\* the keys a worker has dequeued and not yet removed from the In-Flight Set
HeldKeys == { wkey[w] : w \in { x \in Workers : wpc[x] \in {"gen", "lock", "update"} } }

\* the keys waiting in the request queue
QueuedKeys == { thumbQ[i] : i \in 1..Len(thumbQ) }

\* C25: in every reachable state each key of the In-Flight Set is in the
\* worker request queue or held by a worker; a key whose dispatch was dropped
\* because the queue was full does not stay marked in flight.
C25_NoOrphanedInflight ==
    \A k \in thumbInflight : k \in QueuedKeys \/ k \in HeldKeys

\* the steps of worker w while the interactive loop runs
WorkerStep(w) ==
    \/ WorkerRecv(w)
    \/ WorkerGen(w)
    \/ WorkerLock(w)
    \/ WorkerUpdate(w)
    \/ WorkerSignal(w)

PoolLiveNext ==
    \/ \E u \in Callers : EnsureLock(u)
    \/ \E u \in Callers : EnsureReturn(u)
    \/ \E w \in Workers : WorkerStep(w)
    \/ CoRepaint

\* The worker pool while the interactive loop runs: every worker keeps
\* running, GenerateRect returns, and a thread that holds thumbMu releases it.
SpecPoolLive ==
    /\ InitBare /\ [][PoolLiveNext]_vars
    /\ \A w \in Workers : WF_vars(WorkerStep(w))
    /\ WF_vars(\E u \in Callers : EnsureReturn(u))

\* a worker has just completed a generation of k with an error
FailedFor(k) == \E w \in Workers : wpc[w] = "signal" /\ wkey[w] = k /\ wres[w].err

\* a thread is in ensureThumb for k, which is neither ready nor in flight
EnsuringFor(k) ==
    /\ \E u \in Callers : upc[u] = "ensure" /\ ukey[u] = k
    /\ k \notin DOMAIN thumbReady
    /\ k \notin thumbInflight

\* a worker is in GenerateRect for k
GeneratingFor(k) == \E w \in Workers : wpc[w] = "gen" /\ wkey[w] = k

\* C22: when a generation of k completes with an error, k is in neither the
\* Ready Map nor the In-Flight Set; and whenever ensureThumb is called for k
\* after that, with k still in neither, a worker eventually calls the
\* Generation Service for k again.
C22_ReattemptAfterFailure ==
    /\ [][ \A w \in Workers :
             (wpc[w] = "update" /\ wpc'[w] = "signal" /\ wres[w].err) =>
                 /\ wkey[w] \notin DOMAIN thumbReady'
                 /\ wkey[w] \notin thumbInflight' ]_vars
    /\ \A k \in Keys :
         [](FailedFor(k) =>
              [](EnsuringFor(k) => <>GeneratingFor(k)))

\* the steps of the repaint coordinator after a tick that wait for no lock
CoStep ==
    \/ CoDrawBegin
    \/ CoPrefetch
    \/ CoTileEnsure
    \/ CoEnqueueLoad
    \/ CoEnqueueSend
    \/ CoDrawEnd
    \/ CoUnlockState

\* the steps of the Scheduler's consumer that wait for no lock
ConsumerStep ==
    \/ LoopRecv
    \/ LoopCheck
    \/ LoopDraw
    \/ DrawWrite
    \/ DrawUnlock

\* the input thread, the coordinator, the Scheduler's consumer and the
\* workers
FrameLiveNext ==
    \/ InputKey
    \/ InputRedraw
    \/ InputMouse
    \/ InputLock
    \/ InputMutate
    \/ InputMouseLayout
    \/ InputPageRead
    \/ InputSignal
    \/ CoRepaint
    \/ CoTick
    \/ CoLockState
    \/ CoDrawLock
    \/ CoStep
    \/ CoEnsureLock
    \/ ConsumerStep
    \/ DrawLock
    \/ \E w \in TUIWorkers : WorkerStep(w)

\* runGridTUI while the interactive loop runs: ticks keep firing and the
\* coordinator's select takes them, as it takes the repaint signals; the
\* coordinator keeps running and gets a mutex it waits for when that mutex
\* is released again and again (sync.Mutex does not starve a waiter); a
\* thread that holds a mutex releases it (the main thread stateMu, the
\* consumer the output lock, a worker thumbMu), and a worker that has
\* updated the maps sends its signal.  Nothing else is assumed: the user
\* may stop typing, also in the middle of a PageUp or PageDown sequence.
SpecFrameLive ==
    /\ InitBare /\ [][FrameLiveNext]_vars
    /\ WF_vars(CoTick) /\ WF_vars(CoRepaint) /\ WF_vars(CoStep)
    /\ SF_vars(CoLockState \/ CoDrawLock \/ CoEnsureLock)
    /\ WF_vars(InputMutate \/ InputMouseLayout)
    /\ WF_vars(ConsumerStep)
    /\ \A w \in TUIWorkers : WF_vars(WorkerUpdate(w) \/ WorkerSignal(w))

\* a worker has updated the maps and is at its repaint signal
Completed(w) == wpc[w] = "signal"

\* the coordinator holds stateMu and is about to run draw()
DrawStarts == kpc = "termLock"

\* the last frame of the run is past its stateMu.Lock(): no later draw
\* starts in the run
FramesUsedUp == gen > MaxFrames /\ kpc # "lockState"

\* C21: a worker's repaint signal never blocks the worker and at most one
\* signal is pending at a time; and after every completion of a worker the
\* coordinator eventually starts a full-frame draw (unless the completion
\* falls in or after the last frame of the run).
C21_SignalNeverLost ==
    /\ [](repaintCh <= 1)
    /\ [](\A w \in TUIWorkers : Completed(w) => ENABLED WorkerSignal(w))
    /\ \A w \in TUIWorkers :
         Completed(w) ~> (DrawStarts \/ FramesUsedUp)

\* a worker completes while a signal is already pending and the coordinator
\* is in the middle of a draw
C21_Witness ==
    /\ \E w \in TUIWorkers : Completed(w)
    /\ repaintCh = 1
    /\ kpc \in {"tile", "tile_e", "enq", "enq_send", "status"}
    /\ gen <= MaxFrames

\* The Scheduler with its consumer and two client threads: the consumer
\* keeps running and gets the output lock, and a Drain call that can proceed
\* does (a sender waiting on the queue gets a slot that frees up).
SpecLive ==
    /\ InitBare /\ [][Next]_vars
    /\ WF_vars(LoopNext)
    /\ \A c \in Clients : SF_vars(DrainSend(c)) /\ WF_vars(DrainWait(c))

\* C27: every call to Drain() eventually returns, whatever the queue holds
\* at the call and however it interleaves with Enqueue, NextFrame and Close.
C27_DrainTerminates ==
    \A c \in Clients : (cpc[c] \in {"drain", "wait"}) ~> (cpc[c] = "idle")

\* the main thread has issued the deferred renderer.ClearAll()
FinalClearIssued == ipc \in {"d_clear_w", "d_mouse", "d_mouse_w", "done"}

\* C26: once the final ClearAll of the shutdown sequence has been issued,
\* the Scheduler's consumer neither invokes Renderer.Draw nor writes a
\* placement: sched.Close() has stopped it before the deferred clear runs.
C26_NoDrawAfterFinalClear ==
    [][ FinalClearIssued =>
          /\ ~(loopPc = "draw" /\ loopPc' # "draw")
          /\ ~(loopPc = "write" /\ loopPc' = "wrote") ]_vars

\* the threads of runGridTUI: the main thread, the coordinator, the
\* Scheduler's consumer, and the workers
Threads == {"in", "co", "loop"} \cup TUIWorkers

\* the thread that t is waiting for: the holder of the mutex t is blocked
\* on, or the coordinator that renderWG.Wait() waits for; "none" when t is
\* not blocked
WaitsFor(t) ==
    CASE t = "co" /\ kpc = "lockState" /\ stateMu # "free" -> stateMu
      [] t = "co" /\ kpc = "termLock" /\ writeMu # "free" -> writeMu
      [] t = "co" /\ kpc \in {"prefetch", "tile"} /\ thumbMu # "free" -> thumbMu
      [] t = "in" /\ ipc \in {"lock", "m_lock"} /\ stateMu # "free" -> stateMu
      [] t = "in" /\ ipc = "d_wait" /\ kpc # "exited" -> "co"
      [] t = "loop" /\ loopPc = "lock" /\ writeMu # "free" -> writeMu
      [] t \in TUIWorkers /\ wpc[t] = "lock" /\ thumbMu # "free" -> thumbMu
      [] OTHER -> "none"

\* the thread reached from t by following WaitsFor n times, "none" when the
\* chain ends before
RECURSIVE Follow(_, _)
Follow(t, n) ==
    IF n = 0 \/ t = "none" THEN t ELSE Follow(WaitsFor(t), n - 1)

\* the mutexes thread t holds
Holds(t) ==
    {m \in {"stateMu", "writeMu", "thumbMu"} :
        \/ m = "stateMu" /\ stateMu = t
        \/ m = "writeMu" /\ writeMu = t
        \/ m = "thumbMu" /\ thumbMu = t}

\* C28: the threads take stateMu, then the output lock, then thumbMu, never
\* in another order, and no set of threads waits in a cycle, also while the
\* main thread waits for the coordinator at shutdown: every chain of
\* waiting threads ends at a thread that is not blocked.  No send to a queue
\* waits for a slot.
C28_DeadlockFree ==
    /\ \A t \in Threads : Follow(t, Cardinality(Threads)) = "none"
    /\ \A t \in Threads :
         /\ (t = "co" /\ kpc = "lockState") => Holds(t) = {}
         /\ (t = "co" /\ kpc = "termLock") => Holds(t) = {"stateMu"}
         /\ (t = "loop" /\ loopPc = "lock") => Holds(t) = {}
         /\ (t \in TUIWorkers /\ wpc[t] = "lock") => Holds(t) = {}
         /\ (t = "in" /\ ipc \in {"lock", "m_lock", "d_wait"}) => Holds(t) = {}
    /\ ipc = "signal" => ENABLED InputSignal
    /\ kpc = "enq_send" => ENABLED CoEnqueueSend
    /\ \A w \in TUIWorkers : wpc[w] = "signal" => ENABLED WorkerSignal(w)

\* the main thread waits in stateMu.Lock() for the coordinator, which holds
\* stateMu and waits for the output lock, which the consumer holds
C28_Witness ==
    /\ ipc = "lock"
    /\ WaitsFor("in") = "co"
    /\ WaitsFor("co") = "loop"
    /\ WaitsFor("loop") = "none"

====
